---- MODULE Spec2Model ----
(***************************************************************************)
(* Container-return kiosk controller: the serial link layer, the sequence  *)
(* engine (SEQ1-SEQ5), the main loop and the secure-mode watchdog.         *)
(*                                                                         *)
(* The engine is single-threaded: run_main_loop calls process_messages,    *)
(* whose handlers call the sequences, which call wait_for_ack, whose loop  *)
(* calls the handlers again.  The call stack is therefore part of the      *)
(* state (variable stack); every action is one step of the frame on top.   *)
(* Time is in whole seconds.                                               *)
(***************************************************************************)
EXTENDS Integers, Sequences, FiniteSets, TLC

VARIABLES
    \* ---- control -------------------------------------------------------
    stack,                  \* call stack of the main thread, main loop at the bottom
    ret,                    \* return value of the call that returned last
    now,                    \* time.time()
    \* ---- link layer (UART) ---------------------------------------------
    rx,                     \* serial input buffer: frames MCU -> Pi not yet read
    tx,                     \* frames Pi -> MCU written and not yet read by the MCU
    message_id_counter,
    waiting_for_ack,        \* UART._waiting_for_ack
    last_ack_id,            \* UART._last_ack_id
    \* ---- sequence engine -----------------------------------------------
    sensor_states,
    seq1_lights_active, seq1_activation_time,
    seq2_completed, seq2_completion_time,
    seq3_completed, seq3_completion_time,
    seq4_in_progress,
    waiting_for_qr, qr_timeout_start, container_qr_code,
    \* ---- QR reader -----------------------------------------------------
    qr_file,                \* the hand-off slot qr_scan_data.txt
    scan_enabled,
    \* ---- main application gates ----------------------------------------
    device_inactive, device_secure_mode,
    \* ---- sync service and device-status row ----------------------------
    db_last_seen_at, db_is_in_safe_mode, db_active, db_update_failures,
    last_healthcheck,       \* APIService._last_healthcheck
    last_active_status,     \* APIService._last_active_status: {} is None, else {b}
    last_secure_mode_status,\* APIService._last_secure_mode_status, likewise
    loop_counter,           \* run_main_loop's counter, modulo its period
    max_time,               \* end of the observed run
    \* ---- microcontroller (environment) ---------------------------------
    mcu_msg_id,             \* id counter of the MCU's own frames
    mcu_sensor,             \* what the MCU's sensors detect
    mcu_removing,           \* sensors whose item a store movement is taking away
    mcu_removed,            \* time of the last removal by a store movement
    mcu_replaced,           \* items placed again after that
    mcu_white,              \* the lights that are white: cover_light, container_light
    env_events,             \* spontaneous environment events so far (bounded)
    \* ---- observation (history) -----------------------------------------
    owed,                   \* <<type, id>> of the frames read and not yet acknowledged
    handled,                \* those of them whose handler has already taken effect
    scan_in_wait,           \* a scan was completed while SEQ3 was in its QR wait
    unreachable_since,      \* time of the first failed healthcheck since the last answer
    secure_callbacks,       \* arguments of the secure-mode callback's invocations
    healthcheck_outcome,    \* what the backend did with the healthcheck of this iteration
    removal_timed_out,      \* the removal wait of the SEQ4 that just ended has timed out
    absent_seen,            \* sensors whose absent report the engine has read since
                            \* SEQ4 sent its second store command
    last_seq4,              \* the SEQ4 started by the last periodic check, if any: the
                            \* completion flags and timestamps it found, and whether
                            \* it has returned False
    \* ---- QR validator ---------------------------------------------------
    containers,             \* the Container table
    audit_logs,             \* the AuditLog entries the validator has written
    validator_calls,        \* what the validator of the current SEQ3 has called
    backend_answer,         \* what the backend did with its validate request
    \* ---- sync ----------------------------------------------------------
    db_last_sync_at,        \* lastSyncAt of the device-status row
    initial_sync_done,      \* APIService._initial_sync_done
    unmodified,             \* ids of the containers the last successful regular sync
                            \* has stored and nothing has modified since
    \* ---- a function called on its own ----------------------------------
    call,                   \* the function and its arguments
    returned                \* what it has returned: nothing yet, or one value

ctlVars  == <<stack, ret, now>>
linkVars == <<rx, tx, message_id_counter, waiting_for_ack, last_ack_id>>
seqVars  == <<sensor_states, seq1_lights_active, seq1_activation_time,
              seq2_completed, seq2_completion_time,
              seq3_completed, seq3_completion_time, seq4_in_progress>>
qrVars   == <<waiting_for_qr, qr_timeout_start, container_qr_code, qr_file, scan_enabled>>
modeVars == <<device_inactive, device_secure_mode>>
syncVars == <<db_last_seen_at, db_is_in_safe_mode, db_active, db_update_failures,
              last_healthcheck, last_active_status, last_secure_mode_status,
              loop_counter, max_time, unreachable_since, secure_callbacks>>
mcuVars  == <<mcu_msg_id, mcu_sensor, mcu_removing, mcu_removed, mcu_replaced, mcu_white,
              env_events>>
validatorVars == <<containers, audit_logs, validator_calls, backend_answer>>
dbVars == <<db_last_sync_at, initial_sync_done, unmodified>>
callVars == <<call, returned>>
histRest == <<healthcheck_outcome, removal_timed_out, validatorVars, dbVars, callVars>>
histVars == <<histRest, absent_seen, last_seq4>>
obsVars  == <<owed, handled, scan_in_wait, histVars>>

vars == <<ctlVars, linkVars, seqVars, qrVars, modeVars, syncVars, mcuVars, obsVars>>

----------------------------------------------------------------------------
(* Bounds of the model *)

MaxEvents == 2
MaxRx == 2
MaxReplaced == 1
MaxReplaceDelay == 0
\* Length of the observed run in seconds: the engine's, and the watchdog's.
Horizon == 305
SyncHorizon == 174000
QrHorizon == 40
\* time.time() when the program starts.
StartTime == 300000

----------------------------------------------------------------------------
(* Protocol constants (uart.py) *)

ACK == 0
GET_SENSOR_STATUS == 1
SENSOR_STATE_CHANGE == 2
RESTART == 3
ACTUATOR_MOVEMENT == 4
LIGHT_MANAGEMENT == 5
BUTTON_PUSHED == 6
ERROR_MSG == 7
DOOR_CONTROL == 8

ACTUATOR_COVER == 0
ACTUATOR_CONTAINER == 1
STORE == 0
OPEN == 1

LIGHT_CONTAINER == 0
LIGHT_COVER == 1
WHITE_ON == 0
RED_ON == 1
GREEN_ON == 2
DISABLE_ALL == 3
STEADY == 0

SENSOR_COVER == 0
SENSOR_CONTAINER == 1
NO_DETECTION == 0
DETECTION == 1

BLOCK == 0
UNBLOCK == 1

ACK_TIMEOUT == 5
SENSOR_WAIT_TIMEOUT == 10
QR_TIMEOUT == 30
REMOVAL_TIMEOUT == 120
SEQ1_LIGHT_TIMEOUT == 60
SEQ4_DELAY == 180
ID_MODULUS == 100

\* Python's None for a timestamp or an id.
NoTime == -1

\* APIService.__init__ (service.py 25, 41) and run_main_loop (main.py 217).
HEALTHCHECK_INTERVAL == 300
SECURE_MODE_THRESHOLD == 2 * 24 * 60 * 60
SEEN_PERIOD == 300

----------------------------------------------------------------------------
(* Frames on the wire *)

Msg(t, i, p) == [type |-> t, id |-> i, payload |-> p]

\* UARTProtocol.create_ack: payload [type, id] of the original, own id 0.
CreateAck(original) == Msg(ACK, 0, <<original.type, original.id>>)

Key(m) == <<m.type, m.id>>

DoorCmd(action) == <<DOOR_CONTROL, <<action>>>>
LightCmd(position, color) == <<LIGHT_MANAGEMENT, <<position, color, STEADY>>>>
ActuatorCmd(actuator, action) == <<ACTUATOR_MOVEMENT, <<actuator, action>>>>

\* UART.turn_all_lights_off: two commands, container first.
AllLightsOff == <<LightCmd(LIGHT_CONTAINER, DISABLE_ALL), LightCmd(LIGHT_COVER, DISABLE_ALL)>>

\* The id generator as it would be if it never wrapped.
NextMessageIdUnwrapped(c, k) == c + k

\* UART.get_next_message_id, k calls after the counter was c.
NextMessageId(c, k) == (c + k) % ID_MODULUS

\* The frames of cmds, sent in turn when the counter was c.
Frames(cmds, c) == [i \in 1..Len(cmds) |-> Msg(cmds[i][1], NextMessageId(c, i), cmds[i][2])]

\* UART.send_message for each command of cmds in turn, after txb was written.
SendMessages(txb, cmds) ==
    /\ tx' = txb \o Frames(cmds, message_id_counter)
    /\ message_id_counter' = NextMessageId(message_id_counter, Len(cmds))

IsCommand(m) == m.type # ACK

----------------------------------------------------------------------------
(* Call stack *)

NewFrame(fn, pc) ==
    [fn |-> fn, pc |-> pc, msgs |-> <<>>, start_time |-> NoTime,
     cover_removed |-> FALSE, container_removed |-> FALSE,
     unacked |-> 0, timed_out |-> FALSE, sent |-> <<>>,
     awaited |-> {}, matched |-> FALSE]

Top == stack[Len(stack)]
Below == SubSeq(stack, 1, Len(stack) - 1)
WithTop(f) == Below \o <<f>>

SeqFns == {"seq1", "seq2", "seq3", "seq4", "seq5"}
IsSeq(f) == f.fn \in SeqFns

\* wait_for_ack entry (uart.py 532-535), called from the frame caller.
WaitForAckFrame(t) == [NewFrame("wait_for_ack", "poll") EXCEPT !.start_time = t]

\* The same, called right after cmds were sent when the counter was c: awaited
\* is what the caller has just sent, <<type, id>> of each frame.
WaitForAckOf(t, cmds, c) ==
    [WaitForAckFrame(t) EXCEPT !.awaited = {Key(Frames(cmds, c)[i]) : i \in 1..Len(cmds)}]

\* The ACK m has been read.  It answers a wait on the stack stk when it names a
\* command that wait's caller sent, and every wait when it names the command
\* sent last of all (the counter is that command's id).
MarkAcked(m, stk) ==
    [i \in DOMAIN stk |->
       IF /\ stk[i].fn = "wait_for_ack"
          /\ \/ <<m.payload[1], m.payload[2]>> \in stk[i].awaited
             \/ m.payload[2] = message_id_counter
       THEN [stk[i] EXCEPT !.matched = TRUE] ELSE stk[i]]

\* The main thread is blocked on time or on the serial port, or has not entered
\* its loop yet.
AtBlockingPoint ==
    \/ Top.fn = "main" /\ Top.pc = "sleep"
    \/ Top.fn = "main" /\ Top.pc = "process" /\ now = StartTime
    \/ Top.fn \in {"wait_for_ack", "wait_for_both_removals", "wait_for_ack_or_sensor"}
         /\ Top.pc = "poll"
    \/ Top.fn = "seq3" /\ Top.pc = "wait"

----------------------------------------------------------------------------
(* main.py gates *)

\* The callback as it would be if it left secure mode out.
IsDeviceInactiveOnly == device_inactive

\* ContainerReturnSystem.initialize_components: the device-inactive callback.
IsDeviceInactive == device_inactive \/ device_secure_mode

----------------------------------------------------------------------------
(* Observation of the link *)

\* The frames an action writes to the port.
Written == SubSeq(tx', Len(tx) + 1, Len(tx'))

\* The <<type, id>> pairs that the ACK frames among frames acknowledge.
Acked(frames) == {frames[i].payload : i \in {j \in 1..Len(frames) : frames[j].type = ACK}}

NonAckKeys(frames) == {Key(frames[i]) : i \in {j \in 1..Len(frames) : frames[j].type # ACK}}

\* An action reads the frames read and lets the handlers of effect act: what is
\* owed an ACK afterwards, and what of it has been handled already.
Observe(read, effect) ==
    /\ owed' = (owed \cup NonAckKeys(read)) \ Acked(Written)
    /\ handled' = (handled \cup effect) \cap owed'

----------------------------------------------------------------------------
(* Message handlers (uart.py 630-680).  Each one is given the stack stk and *)
(* the written frames txb its caller leaves, and decides stack, tx,         *)
(* message_id_counter, sensor_states, waiting_for_ack and last_ack_id.      *)

\* _handle_button_press
HandleButtonPress(m, stk, txb) ==
    /\ stack' = IF IsDeviceInactive THEN stk ELSE stk \o <<NewFrame("seq1", "iii")>>
    /\ tx' = txb
    /\ UNCHANGED <<message_id_counter, sensor_states, waiting_for_ack, last_ack_id>>

\* _handle_sensor_change
HandleSensorChange(m, stk, txb) ==
    /\ IF Len(m.payload) >= 2 /\ ~IsDeviceInactive
       THEN LET sensor_type == m.payload[1]
                new_status == m.payload[2]
            IN  /\ sensor_states' =
                     IF sensor_type \in DOMAIN sensor_states
                     THEN [sensor_states EXCEPT ![sensor_type] = (new_status = DETECTION)]
                     ELSE sensor_states
                /\ stack' =
                     IF sensor_type = SENSOR_COVER /\ new_status = DETECTION
                     THEN stk \o <<NewFrame("seq2", "iii")>>
                     ELSE IF sensor_type = SENSOR_CONTAINER /\ new_status = DETECTION
                     THEN stk \o <<NewFrame("seq3", "iii")>>
                     ELSE stk
       ELSE /\ sensor_states' = sensor_states
            /\ stack' = stk
    /\ tx' = txb
    /\ UNCHANGED <<message_id_counter, waiting_for_ack, last_ack_id>>

\* _handle_error_message: set_error_state sends container light red.
HandleErrorMessage(m, stk, txb) ==
    /\ SendMessages(txb, <<LightCmd(LIGHT_CONTAINER, RED_ON)>>)
    /\ stack' = stk
    /\ UNCHANGED <<sensor_states, waiting_for_ack, last_ack_id>>

\* _handle_ack
HandleAck(m, stk, txb) ==
    /\ last_ack_id' = m.id
    /\ waiting_for_ack' = FALSE
    /\ stack' = MarkAcked(m, stk)
    /\ tx' = txb
    /\ UNCHANGED <<message_id_counter, sensor_states>>

NoHandler(m, stk, txb) ==
    /\ stack' = stk
    /\ tx' = txb
    /\ UNCHANGED <<message_id_counter, sensor_states, waiting_for_ack, last_ack_id>>

\* self.message_handlers
Dispatch(m, stk, txb) ==
    CASE m.type = BUTTON_PUSHED -> HandleButtonPress(m, stk, txb)
      [] m.type = SENSOR_STATE_CHANGE -> HandleSensorChange(m, stk, txb)
      [] m.type = ERROR_MSG -> HandleErrorMessage(m, stk, txb)
      [] m.type = ACK -> HandleAck(m, stk, txb)
      [] OTHER -> NoHandler(m, stk, txb)

\* The handler of m changes sensor tracking, starts a sequence or sends a command.
HandlerTakesEffect(m) ==
    \/ m.type = ERROR_MSG
    \/ m.type = BUTTON_PUSHED /\ ~IsDeviceInactive
    \/ m.type = SENSOR_STATE_CHANGE /\ Len(m.payload) >= 2 /\ ~IsDeviceInactive

Effect(m) == IF HandlerTakesEffect(m) THEN {Key(m)} ELSE {}

----------------------------------------------------------------------------
(* process_messages (uart.py 602-628) *)

\* run_main_loop calls process_messages: receive_messages drains the buffer.
MainProcessMessages ==
    /\ Top.fn = "main" /\ Top.pc = "process"
    /\ stack' = WithTop([Top EXCEPT !.pc = "api"])
                  \o <<[NewFrame("process_messages", "loop") EXCEPT !.msgs = rx]>>
    /\ rx' = <<>>
    /\ UNCHANGED <<ret, now, tx, message_id_counter, waiting_for_ack, last_ack_id>>
    /\ UNCHANGED <<seqVars, qrVars, modeVars, syncVars, mcuVars, scan_in_wait, histVars>>
    /\ Observe(rx, {})

\* _process_message: ACK first, then the handler.
ProcessMessage ==
    /\ Top.fn = "process_messages" /\ Top.pc = "loop" /\ Top.msgs # <<>>
    /\ LET m == Head(Top.msgs)
       IN  /\ Dispatch(m, WithTop([Top EXCEPT !.msgs = Tail(@)]),
                       IF m.type # ACK THEN Append(tx, CreateAck(m)) ELSE tx)
    /\ Observe(<<>>, Effect(Head(Top.msgs)))
    /\ ret' = FALSE
    /\ UNCHANGED <<now, rx>>
    /\ UNCHANGED <<seq1_lights_active, seq1_activation_time, seq2_completed,
                   seq2_completion_time, seq3_completed, seq3_completion_time,
                   seq4_in_progress>>
    /\ UNCHANGED <<qrVars, modeVars, syncVars, mcuVars, scan_in_wait, histVars>>

\* A timestamp that Python takes as true.
Truthy(t) == t # NoTime /\ t # 0

\* The first condition as it would be with a delay that is not strict.
Seq2ReadyAtDelay(current_time) == seq2_completed /\ Truthy(seq2_completion_time)
                                    /\ current_time - seq2_completion_time >= SEQ4_DELAY

\* The two conditions of check_sequence_4_trigger at current_time.
Seq2Ready(current_time) == seq2_completed /\ Truthy(seq2_completion_time)
                             /\ current_time - seq2_completion_time > SEQ4_DELAY
Seq3Ready(current_time) == seq3_completed /\ Truthy(seq3_completion_time)
                             /\ current_time - seq3_completion_time > SEQ4_DELAY

\* check_sequence_4_trigger
CheckSequence4Trigger(current_time) ==
    IF seq4_in_progress THEN FALSE ELSE Seq2Ready(current_time) \/ Seq3Ready(current_time)

\* The light timeout test as it would be with a timeout that is not strict.
Seq1LightTimeoutAtLimit(current_time) ==
    /\ seq1_lights_active /\ Truthy(seq1_activation_time)
    /\ current_time - seq1_activation_time >= SEQ1_LIGHT_TIMEOUT

\* The light timeout test of _check_automatic_sequences at current_time.
Seq1LightTimeout(current_time) ==
    /\ seq1_lights_active /\ Truthy(seq1_activation_time)
    /\ current_time - seq1_activation_time > SEQ1_LIGHT_TIMEOUT

\* _check_automatic_sequences up to the call of _execute_sequence_4.
CheckAutomaticSequences ==
    /\ Top.fn = "process_messages" /\ Top.pc = "loop" /\ Top.msgs = <<>>
    /\ IF Seq1LightTimeout(now)
       THEN /\ SendMessages(tx, AllLightsOff)
            /\ seq1_lights_active' = FALSE
            /\ seq1_activation_time' = NoTime
       ELSE UNCHANGED <<tx, message_id_counter, seq1_lights_active, seq1_activation_time>>
    /\ IF CheckSequence4Trigger(now)
       THEN /\ stack' = WithTop([Top EXCEPT !.pc = "after_seq4"]) \o <<NewFrame("seq4", "ii")>>
            /\ last_seq4' = {[found |-> <<seq2_completed, seq2_completion_time,
                                           seq3_completed, seq3_completion_time>>,
                               failed |-> FALSE]}
       ELSE /\ stack' = Below
            /\ last_seq4' = {}
    /\ ret' = FALSE
    /\ UNCHANGED <<now, rx, waiting_for_ack, last_ack_id>>
    /\ UNCHANGED <<sensor_states, seq2_completed, seq2_completion_time, seq3_completed,
                   seq3_completion_time, seq4_in_progress>>
    /\ UNCHANGED <<qrVars, modeVars, syncVars, mcuVars, owed, handled, scan_in_wait,
                   histRest, absent_seen>>

\* _check_automatic_sequences after _execute_sequence_4 returned.
AfterSequence4 ==
    /\ Top.fn = "process_messages" /\ Top.pc = "after_seq4"
    /\ IF ret
       THEN /\ now + 1 <= max_time
            /\ now' = now + 1
            /\ IF sensor_states[SENSOR_COVER] \/ sensor_states[SENSOR_CONTAINER]
               THEN stack' = WithTop([Top EXCEPT !.pc = "end"]) \o <<NewFrame("seq5", "ii")>>
               ELSE stack' = Below
       ELSE /\ now' = now
            /\ stack' = Below
    /\ ret' = FALSE
    /\ removal_timed_out' = FALSE
    /\ UNCHANGED <<linkVars, seqVars, qrVars, modeVars, syncVars, mcuVars, owed, handled,
                   scan_in_wait, healthcheck_outcome, validatorVars, dbVars, callVars,
                   absent_seen, last_seq4>>

\* process_messages returns after _execute_sequence_5.
ProcessMessagesReturn ==
    /\ Top.fn = "process_messages" /\ Top.pc = "end"
    /\ stack' = Below
    /\ ret' = FALSE
    /\ UNCHANGED <<now, linkVars, seqVars, qrVars, modeVars, syncVars, mcuVars, obsVars>>

----------------------------------------------------------------------------
(* wait_for_ack (uart.py 518-562) *)

Elapsed(f) == now - f.start_time

InWaitForAckLoop == Top.fn = "wait_for_ack" /\ Top.pc = "poll"
                      /\ waiting_for_ack /\ Elapsed(Top) < ACK_TIMEOUT

\* The loop condition fails: return not self._waiting_for_ack.
WaitForAckReturn ==
    /\ Top.fn = "wait_for_ack" /\ Top.pc = "poll"
    /\ ~(waiting_for_ack /\ Elapsed(Top) < ACK_TIMEOUT)
    /\ stack' = Below
    /\ ret' = ~waiting_for_ack
    /\ UNCHANGED <<now, linkVars, seqVars, qrVars, modeVars, syncVars, mcuVars, obsVars>>

\* messages = self.receive_messages() with frames in the buffer.  The MCU reads
\* what the Pi wrote within the 0.1 s between two polls.
WaitForAckReceive ==
    /\ InWaitForAckLoop
    /\ rx # <<>> /\ tx = <<>>
    /\ stack' = WithTop([Top EXCEPT !.msgs = rx, !.pc = "dispatch"])
    /\ rx' = <<>>
    /\ UNCHANGED <<ret, now, tx, message_id_counter, waiting_for_ack, last_ack_id>>
    /\ UNCHANGED <<seqVars, qrVars, modeVars, syncVars, mcuVars, scan_in_wait, histVars>>
    /\ Observe(rx, {})

\* Nothing arrives until the timeout has elapsed.
WaitForAckTimeout ==
    /\ InWaitForAckLoop
    /\ rx = <<>> /\ tx = <<>>
    /\ Top.start_time + ACK_TIMEOUT <= max_time
    /\ now' = Top.start_time + ACK_TIMEOUT
    /\ UNCHANGED <<stack, ret, linkVars, seqVars, qrVars, modeVars, syncVars, mcuVars, obsVars>>

AfterMessage(msgs) == IF Tail(msgs) = <<>> THEN "poll" ELSE "dispatch"

\* The sensor that the frame m reports absent, if it reports one.
ReportedAbsent(m) ==
    IF m.type = SENSOR_STATE_CHANGE /\ Len(m.payload) >= 2 /\ m.payload[2] = NO_DETECTION
    THEN {m.payload[1]} ELSE {}

\* The body of the for loop up to the handler call (ACK: _handle_ack; sensor,
\* button, error: the handler, send_ack follows; any other type: send_ack).
WaitForAckDispatch ==
    /\ Top.fn = "wait_for_ack" /\ Top.pc = "dispatch"
    /\ LET m == Head(Top.msgs)
           next == [Top EXCEPT !.msgs = Tail(@), !.pc = AfterMessage(Top.msgs)]
       IN  /\ CASE m.type = ACK -> HandleAck(m, WithTop(next), tx)
                [] m.type \in {SENSOR_STATE_CHANGE, BUTTON_PUSHED, ERROR_MSG} ->
                     Dispatch(m, WithTop([Top EXCEPT !.pc = "send_ack"]), tx)
                [] OTHER -> NoHandler(m, WithTop(next), Append(tx, CreateAck(m)))
    /\ Observe(<<>>, Effect(Head(Top.msgs)))
    /\ absent_seen' = IF \E i \in DOMAIN stack : stack[i].fn = "seq4" /\ stack[i].pc = "v"
                      THEN absent_seen \cup ReportedAbsent(Head(Top.msgs))
                      ELSE absent_seen
    /\ UNCHANGED <<ret, now, rx, last_seq4>>
    /\ UNCHANGED <<seq1_lights_active, seq1_activation_time, seq2_completed,
                   seq2_completion_time, seq3_completed, seq3_completion_time,
                   seq4_in_progress>>
    /\ UNCHANGED <<qrVars, modeVars, syncVars, mcuVars, scan_in_wait, histRest>>

\* self.send_ack(message) after the handler returned.
WaitForAckSendAck ==
    /\ Top.fn = "wait_for_ack" /\ Top.pc = "send_ack"
    /\ tx' = Append(tx, CreateAck(Head(Top.msgs)))
    /\ stack' = WithTop([Top EXCEPT !.msgs = Tail(@), !.pc = AfterMessage(Top.msgs)])
    /\ Observe(<<>>, {})
    /\ ret' = FALSE
    /\ UNCHANGED <<now, rx, message_id_counter, waiting_for_ack, last_ack_id>>
    /\ UNCHANGED <<seqVars, qrVars, modeVars, syncVars, mcuVars, scan_in_wait, histVars>>

----------------------------------------------------------------------------
(* wait_for_ack_or_sensor (uart.py 564-586).  No code of the program calls  *)
(* it; a client of the UART class does, between two main-loop iterations.  *)

InWaitForAckOrSensorLoop == Top.fn = "wait_for_ack_or_sensor" /\ Top.pc = "poll"
                              /\ waiting_for_ack /\ Elapsed(Top) < SENSOR_WAIT_TIMEOUT

\* Entry: the flags are set and the clock is read.
CallWaitForAckOrSensor ==
    /\ Top.fn = "main" /\ Top.pc = "sleep"
    /\ env_events < MaxEvents
    /\ env_events' = env_events + 1
    /\ stack' = stack \o <<[NewFrame("wait_for_ack_or_sensor", "poll")
                               EXCEPT !.start_time = now]>>
    /\ waiting_for_ack' = TRUE
    /\ last_ack_id' = NoTime
    /\ UNCHANGED <<ret, now, rx, tx, message_id_counter, seqVars, qrVars, modeVars, syncVars,
                   mcu_msg_id, mcu_sensor, mcu_removing, mcu_removed, mcu_replaced, mcu_white,
                   obsVars>>

WaitForAckOrSensorReceive ==
    /\ InWaitForAckOrSensorLoop
    /\ rx # <<>> /\ tx = <<>>
    /\ stack' = WithTop([Top EXCEPT !.msgs = rx, !.pc = "dispatch"])
    /\ rx' = <<>>
    /\ UNCHANGED <<ret, now, tx, message_id_counter, waiting_for_ack, last_ack_id>>
    /\ UNCHANGED <<seqVars, qrVars, modeVars, syncVars, mcuVars, scan_in_wait, histVars>>
    /\ Observe(rx, {})

WaitForAckOrSensorTimeout ==
    /\ InWaitForAckOrSensorLoop
    /\ rx = <<>> /\ tx = <<>>
    /\ Top.start_time + SENSOR_WAIT_TIMEOUT <= max_time
    /\ now' = Top.start_time + SENSOR_WAIT_TIMEOUT
    /\ UNCHANGED <<stack, ret, linkVars, seqVars, qrVars, modeVars, syncVars, mcuVars, obsVars>>

\* One message of the for loop: an ACK or a sensor frame ends the call, the rest
\* of the batch is left; any other frame is passed over.
WaitForAckOrSensorMessage ==
    /\ Top.fn = "wait_for_ack_or_sensor" /\ Top.pc = "dispatch"
    /\ LET m == Head(Top.msgs)
           next == [Top EXCEPT !.msgs = Tail(@), !.pc = AfterMessage(Top.msgs)]
       IN  CASE m.type = ACK -> HandleAck(m, Below, tx) /\ ret' = TRUE
             [] m.type = SENSOR_STATE_CHANGE ->
                  NoHandler(m, Below, Append(tx, CreateAck(m))) /\ ret' = TRUE
             [] OTHER -> NoHandler(m, WithTop(next), tx) /\ ret' = ret
    /\ UNCHANGED <<now, rx>>
    /\ UNCHANGED <<seq1_lights_active, seq1_activation_time, seq2_completed,
                   seq2_completion_time, seq3_completed, seq3_completion_time,
                   seq4_in_progress>>
    /\ UNCHANGED <<qrVars, modeVars, syncVars, mcuVars, scan_in_wait, histVars>>
    /\ Observe(<<>>, {})

\* The loop condition fails: return False, 'timeout'.
WaitForAckOrSensorReturn ==
    /\ Top.fn = "wait_for_ack_or_sensor" /\ Top.pc = "poll"
    /\ ~(waiting_for_ack /\ Elapsed(Top) < SENSOR_WAIT_TIMEOUT)
    /\ stack' = Below
    /\ ret' = FALSE
    /\ UNCHANGED <<now, linkVars, seqVars, qrVars, modeVars, syncVars, mcuVars, obsVars>>

----------------------------------------------------------------------------
(* Steps shared by the sequences *)

\* Send cmds (at time t), then call wait_for_ack(timeout=5.0); resume at pc.
SendAndWait(cmds, pc, t) ==
    /\ SendMessages(tx, cmds)
    /\ stack' = WithTop([Top EXCEPT !.pc = pc,
                                    !.unacked = (IF ret THEN 0 ELSE @) + Len(cmds),
                                    !.sent = @ \o cmds])
                  \o <<WaitForAckOf(t, cmds, message_id_counter)>>
    /\ waiting_for_ack' = TRUE
    /\ last_ack_id' = NoTime
    /\ ret' = FALSE

\* return value
Return(value) ==
    /\ stack' = Below
    /\ ret' = value

\* return False after a failed wait, nothing sent.
Abort ==
    /\ Return(FALSE)
    /\ UNCHANGED <<tx, message_id_counter, waiting_for_ack, last_ack_id>>

----------------------------------------------------------------------------
(* SEQ1 (uart.py 682-763) *)

\* The lights as they would be sent container first.
Seq1CommandContainerFirst(pc) ==
    CASE pc = "iii" -> DoorCmd(UNBLOCK)
      [] pc = "iv" -> DoorCmd(BLOCK)
      [] pc = "vii" -> LightCmd(LIGHT_CONTAINER, WHITE_ON)
      [] pc = "ix" -> LightCmd(LIGHT_COVER, WHITE_ON)

\* The command of steps iii, vi, viii and x, sent when SEQ1 is at pc.
Seq1Command(pc) ==
    CASE pc = "iii" -> DoorCmd(UNBLOCK)
      [] pc = "iv" -> DoorCmd(BLOCK)
      [] pc = "vii" -> LightCmd(LIGHT_COVER, WHITE_ON)
      [] pc = "ix" -> LightCmd(LIGHT_CONTAINER, WHITE_ON)

ExecuteSequence1 ==
    /\ Top.fn = "seq1"
    /\ CASE Top.pc = "iii" ->
              /\ SendAndWait(<<Seq1Command("iii")>>, "iv", now)
              /\ UNCHANGED <<now, seq1_lights_active, seq1_activation_time>>
         [] Top.pc = "iv" ->
              IF ret
              THEN /\ now + 1 <= max_time
                   /\ now' = now + 1
                   /\ SendAndWait(<<Seq1Command("iv")>>, "vii", now + 1)
                   /\ UNCHANGED <<seq1_lights_active, seq1_activation_time>>
              ELSE Abort /\ UNCHANGED <<now, seq1_lights_active, seq1_activation_time>>
         [] Top.pc = "vii" ->
              IF ret
              THEN /\ SendAndWait(<<Seq1Command("vii")>>, "ix", now)
                   /\ UNCHANGED <<now, seq1_lights_active, seq1_activation_time>>
              ELSE Abort /\ UNCHANGED <<now, seq1_lights_active, seq1_activation_time>>
         [] Top.pc = "ix" ->
              IF ret
              THEN /\ SendAndWait(<<Seq1Command("ix")>>, "xi", now)
                   /\ UNCHANGED <<now, seq1_lights_active, seq1_activation_time>>
              ELSE Abort /\ UNCHANGED <<now, seq1_lights_active, seq1_activation_time>>
         [] Top.pc = "xi" ->
              IF ret
              THEN /\ seq1_lights_active' = TRUE
                   /\ seq1_activation_time' = now
                   /\ Return(TRUE)
                   /\ UNCHANGED <<now, tx, message_id_counter, waiting_for_ack, last_ack_id>>
              ELSE Abort /\ UNCHANGED <<now, seq1_lights_active, seq1_activation_time>>
    /\ UNCHANGED <<rx, sensor_states, seq2_completed, seq2_completion_time,
                   seq3_completed, seq3_completion_time, seq4_in_progress>>
    /\ UNCHANGED <<qrVars, modeVars, syncVars, mcuVars, obsVars>>

----------------------------------------------------------------------------
(* SEQ2 (uart.py 765-806) *)

ExecuteSequence2 ==
    /\ Top.fn = "seq2"
    /\ CASE Top.pc = "iii" ->
              /\ seq1_lights_active' = FALSE
              /\ seq1_activation_time' =
                   IF seq1_lights_active THEN NoTime ELSE seq1_activation_time
              /\ SendAndWait(<<LightCmd(LIGHT_COVER, GREEN_ON)>>, "iv", now)
              /\ UNCHANGED <<seq2_completed, seq2_completion_time>>
         [] Top.pc = "iv" ->
              IF ret
              THEN /\ seq2_completed' = TRUE
                   /\ seq2_completion_time' = now
                   /\ Return(TRUE)
                   /\ UNCHANGED <<tx, message_id_counter, waiting_for_ack, last_ack_id,
                                  seq1_lights_active, seq1_activation_time>>
              ELSE /\ Abort
                   /\ UNCHANGED <<seq1_lights_active, seq1_activation_time,
                                  seq2_completed, seq2_completion_time>>
    /\ UNCHANGED <<now, rx, sensor_states, seq3_completed, seq3_completion_time,
                   seq4_in_progress>>
    /\ UNCHANGED <<qrVars, modeVars, syncVars, mcuVars, obsVars>>


----------------------------------------------------------------------------
(* QR validator (qr/processor.py 69-184, uart.py 861-1090, api/service.py 281-290) *)

Range(seq) == {seq[j] : j \in DOMAIN seq}

\* An Optional value is the empty set (None) or a set of one element.
Some(optional) == CHOOSE x \in optional : TRUE

\* A dict is a function on its keys: dict.get(key, default) and its truth value.
Get(dict, key, default) == IF key \in DOMAIN dict THEN dict[key] ELSE default
NonEmpty(dict) == DOMAIN dict # {}
EmptyDict == <<>>

\* The scans of the model: a URL with the hash of its code, the same URL with a
\* forged hash, and a string that is no URL.
GoodUrl == "https://paka.eco/QR/ABCDEF/K7QX2M"
ForgedUrl == "https://paka.eco/QR/ABCDEF/ZZZZZZ"
Scans == {GoodUrl, ForgedUrl, "ABCDEF"}

\* _parse_scanned_url: the groups of url_pattern, or None.
ParseScannedUrl(url) ==
    CASE url = GoodUrl -> {[code |-> "ABCDEF", hash |-> "K7QX2M"]}
      [] url = ForgedUrl -> {[code |-> "ABCDEF", hash |-> "ZZZZZZ"]}
      [] OTHER -> {}

\* _generate_hmac_hash: the first six characters of the keyed hash of the code.
GenerateHmacHash(code) == IF code = "ABCDEF" THEN "K7QX2M" ELSE "Q2W3E4"

\* process_qr_code
ProcessQrCode(qr_code) ==
    LET parsed_url == ParseScannedUrl(qr_code)
        fraud == [validation |-> "fraud_attempt", is_fraud_attempt |-> TRUE,
                  container_id |-> {}]
    IN  IF parsed_url = {} THEN fraud
        ELSE IF Some(parsed_url).hash # GenerateHmacHash(Some(parsed_url).code) THEN fraud
        ELSE [validation |-> "valid", is_fraud_attempt |-> FALSE,
              container_id |-> {Some(parsed_url).code}]

\* What the backend does with a validate request: no response (timeout, refused
\* connection, HTTP error status), or a response body.
Answers == {"timeout", "unsuccessful", "no_data", "no_container_data",
            "returnable", "not_returnable"}
NoAnswer == "none"

\* APIClient.validate_container: the response body, or nothing when requests raises.
ClientValidateContainer(answer) ==
    CASE answer = "unsuccessful" -> {[success |-> FALSE, error |-> "rejected"]}
      [] answer = "no_data" -> {[success |-> TRUE, data |-> EmptyDict]}
      [] answer = "no_container_data" -> {[success |-> TRUE, data |-> [message |-> "ok"]]}
      [] answer = "returnable" ->
           {[success |-> TRUE, data |-> [containerData |-> [isReturnable |-> TRUE]]]}
      [] answer = "not_returnable" ->
           {[success |-> TRUE, data |-> [containerData |-> [isReturnable |-> FALSE]]]}
      [] OTHER -> {}

\* APIService.validate_container: the response's data, or None.
ApiValidateContainer(answer) ==
    LET response == ClientValidateContainer(answer)
    IN  IF response = {} THEN {}
        ELSE IF Get(Some(response), "success", FALSE)
             THEN IF "data" \in DOMAIN Some(response) THEN {Some(response).data} ELSE {}
             ELSE {}

\* ContainerCRUD.get_by_qr_code
GetByQrCode(store, qr_code) == {container \in store : container.qr_code = qr_code}

\* ContainerCRUD.update with the fields of updates, and updatedAt.
UpdateContainer(store, id, updates, time) ==
    {IF container.id = id
     THEN [container EXCEPT !.is_returnable = Get(updates, "is_returnable", @),
                            !.updated_at = time]
     ELSE container : container \in store}

\* datetime's <: a TypeError (no value) between a naive and an aware datetime.
DatetimeLess(a, b) == IF a.tzinfo = b.tzinfo THEN {a.time < b.time} ELSE {}

\* datetime.now(timezone.utc)
UtcNow(time) == [time |-> time, tzinfo |-> TRUE]

\* AuditLogger._log_to_database
AuditLog(type, description, details, container_id, is_offline) ==
    [type |-> type, description |-> description, details |-> details,
     container_id |-> container_id, is_offline_action |-> is_offline]

\* _validate_with_server: the response and whether the request was made.
ValidateWithServer(qr_code, store, answer) ==
    IF GetByQrCode(store, qr_code) = {}
    THEN [response |-> {}, calls |-> <<>>]
    ELSE LET response == ApiValidateContainer(answer)
         IN  [response |-> IF response # {} /\ NonEmpty(Some(response)) THEN response ELSE {},
              calls |-> <<"validate_container">>]

\* _update_local_container
UpdateLocalContainer(qr_code, container_data, store, time) ==
    LET existing_container == GetByQrCode(store, qr_code)
        updates == IF "isReturnable" \in DOMAIN container_data
                   THEN [is_returnable |-> container_data.isReturnable]
                   ELSE EmptyDict
    IN  IF existing_container # {}
        THEN IF NonEmpty(updates)
             THEN UpdateContainer(store, Some(existing_container).id, updates, time)
             ELSE store
        ELSE store \cup {[id |-> "created", qr_code |-> qr_code,
                          is_returnable |-> Get(container_data, "isReturnable", TRUE),
                          due_date |-> {}, updated_at |-> time]}

\* The handler as it would be if it also required the local record to be returnable.
HandleServerResponseAndLocal(qr_code, response, store, time) ==
    LET container_data == Get(response, "containerData", EmptyDict)
        is_returnable == /\ Get(container_data, "isReturnable", FALSE)
                         /\ \A c \in GetByQrCode(store, qr_code) : c.is_returnable
        id == {c.id : c \in GetByQrCode(store, qr_code)}
    IN  [result |-> is_returnable,
         containers |-> IF NonEmpty(container_data)
                        THEN UpdateLocalContainer(qr_code, container_data, store, time)
                        ELSE store,
         logs |-> IF is_returnable
                  THEN <<AuditLog("RETURN_VALID", "Server acceptance", "", id, FALSE)>>
                  ELSE <<AuditLog("RETURN_INVALID", "Server rejection", "", id, FALSE)>>,
         calls |-> IF NonEmpty(container_data)
                   THEN <<"_handle_server_response", "_update_local_container">>
                   ELSE <<"_handle_server_response">>]

\* _handle_server_response
HandleServerResponse(qr_code, response, store, time) ==
    LET container_data == Get(response, "containerData", EmptyDict)
        is_returnable == Get(container_data, "isReturnable", FALSE)
        container == GetByQrCode(store, qr_code)
        id == {c.id : c \in container}
    IN  [result |-> is_returnable,
         containers |-> IF NonEmpty(container_data)
                        THEN UpdateLocalContainer(qr_code, container_data, store, time)
                        ELSE store,
         logs |-> IF is_returnable
                  THEN <<AuditLog("RETURN_VALID", "Server acceptance", "", id, FALSE)>>
                  ELSE <<AuditLog("RETURN_INVALID", "Server rejection", "", id, FALSE)>>,
         calls |-> IF NonEmpty(container_data)
                   THEN <<"_handle_server_response", "_update_local_container">>
                   ELSE <<"_handle_server_response">>]

\* _handle_offline_fallback
HandleOfflineFallback(qr_code, store, time) ==
    LET container == GetByQrCode(store, qr_code)
        id == {c.id : c \in container}
        Decision(result, logs) ==
            [result |-> result, containers |-> store, logs |-> logs,
             calls |-> <<"_handle_offline_fallback">>]
    IN  IF container = {} THEN Decision(FALSE, <<>>)
        ELSE IF ~Some(container).is_returnable
        THEN Decision(FALSE, <<AuditLog("RETURN_INVALID",
                                 "Offline validation failed - not returnable", "", id, TRUE)>>)
        ELSE IF Some(container).due_date # {}
                /\ DatetimeLess(Some(Some(container).due_date), UtcNow(time)) = {}
        THEN \* the comparison raises: the except clause returns False
             Decision(FALSE, <<>>)
        ELSE IF Some(container).due_date # {}
                /\ Some(DatetimeLess(Some(Some(container).due_date), UtcNow(time)))
        THEN Decision(FALSE, <<AuditLog("RETURN_INVALID",
                                 "Offline validation failed - expired", "", id, TRUE)>>)
        ELSE Decision(TRUE, <<AuditLog("RETURN_VALID",
                                "Offline validation success", "", id, TRUE)>>)

\* The validator as it would be if it logged a fraud attempt as an invalid return.
ValidateContainerQrInvalidReturn(qr_code, store, answer, time) ==
    LET qr_result == ProcessQrCode(qr_code)
        server == ValidateWithServer(Some(qr_result.container_id), store, answer)
        decision == IF server.response # {}
                    THEN HandleServerResponse(Some(qr_result.container_id),
                                              Some(server.response), store, time)
                    ELSE HandleOfflineFallback(Some(qr_result.container_id), store, time)
    IN  IF qr_result.is_fraud_attempt \/ qr_result.validation = "fraud_attempt"
        THEN [result |-> FALSE, containers |-> store,
              logs |-> <<AuditLog("RETURN_INVALID", "Security Event [fraud_attempt]",
                                  qr_result.validation, {}, FALSE)>>,
              calls |-> <<>>]
        ELSE IF qr_result.validation # "valid" \/ qr_result.container_id = {}
        THEN [result |-> FALSE, containers |-> store, logs |-> <<>>, calls |-> <<>>]
        ELSE [decision EXCEPT !.calls = server.calls \o @]

\* _validate_container_qr: its return value, the store and the audit entries it
\* leaves, and the calls it has made.
ValidateContainerQr(qr_code, store, answer, time) ==
    LET qr_result == ProcessQrCode(qr_code)
        server == ValidateWithServer(Some(qr_result.container_id), store, answer)
        decision == IF server.response # {}
                    THEN HandleServerResponse(Some(qr_result.container_id),
                                              Some(server.response), store, time)
                    ELSE HandleOfflineFallback(Some(qr_result.container_id), store, time)
    IN  IF qr_result.is_fraud_attempt \/ qr_result.validation = "fraud_attempt"
        THEN [result |-> FALSE, containers |-> store,
              logs |-> <<AuditLog("ERROR", "Security Event [fraud_attempt]",
                                  qr_result.validation, {}, FALSE)>>,
              calls |-> <<>>]
        ELSE IF qr_result.validation # "valid" \/ qr_result.container_id = {}
        THEN [result |-> FALSE, containers |-> store, logs |-> <<>>, calls |-> <<>>]
        ELSE [decision EXCEPT !.calls = server.calls \o @]

----------------------------------------------------------------------------
(* Frames as bytes (uart.py 122-201, 374-413) *)

START_BYTE == 123
END_BYTE == 125
FRAME_OVERHEAD == 5
MAX_PAYLOAD_LENGTH == 255

MessageTypes == {ACK, GET_SENSOR_STATUS, SENSOR_STATE_CHANGE, RESTART, ACTUATOR_MOVEMENT,
                 LIGHT_MANAGEMENT, BUTTON_PUSHED, ERROR_MSG, DOOR_CONTROL}

\* UARTProtocol.validate_message
ValidateMessage(message) ==
    /\ 0 <= message.id /\ message.id <= ID_MODULUS - 1
    /\ Len(message.payload) <= MAX_PAYLOAD_LENGTH
    /\ message.type \in MessageTypes

\* UARTProtocol.encode_message: the frame, or none (ValueError).
EncodeMessage(message) ==
    IF ~ValidateMessage(message) THEN {}
    ELSE {<<START_BYTE, message.type, message.id, Len(message.payload)>>
            \o message.payload \o <<END_BYTE>>}

\* UARTProtocol.validate_frame
ValidateFrame(frame) ==
    /\ Len(frame) >= FRAME_OVERHEAD
    /\ frame[1] = START_BYTE
    /\ frame[Len(frame)] = END_BYTE
    /\ Len(frame) = FRAME_OVERHEAD + frame[4]

\* UARTProtocol.decode_frame as it would be if it took the length byte into the
\* payload.
DecodeFrameFromLength(frame) ==
    IF ~ValidateFrame(frame) \/ frame[2] \notin MessageTypes THEN {}
    ELSE {Msg(frame[2], frame[3], SubSeq(frame, 4, 3 + frame[4]))}

\* UARTProtocol.decode_frame: the message, or None.
DecodeFrame(frame) ==
    IF ~ValidateFrame(frame) \/ frame[2] \notin MessageTypes THEN {}
    ELSE {Msg(frame[2], frame[3],
              IF frame[4] > 0 THEN SubSeq(frame, 5, 4 + frame[4]) ELSE <<>>)}

\* The loop of receive_messages over the bytes read, from position i (counted
\* from 1): an incomplete frame ends it, and what was read is not kept.
RECURSIVE ExtractFrames(_, _)
ExtractFrames(data, i) ==
    IF i > Len(data) THEN <<>>
    ELSE IF data[i] = START_BYTE /\ i + 4 <= Len(data)
    THEN LET frame_length == FRAME_OVERHEAD + data[i + 3]
             message == DecodeFrame(SubSeq(data, i, i + frame_length - 1))
         IN  IF i - 1 + frame_length <= Len(data)
             THEN (IF message # {} THEN <<Some(message)>> ELSE <<>>)
                    \o ExtractFrames(data, i + frame_length)
             ELSE <<>>
    ELSE ExtractFrames(data, i + 1)

\* UART.receive_messages on the bytes that are waiting.
ReceiveMessages(data) == ExtractFrames(data, 1)

----------------------------------------------------------------------------
(* QR processor on the characters of a scan (qr/processor.py 61-184) *)

CODE_LENGTH == 6

UPPERCASE == <<"A", "B", "C", "D", "E", "F", "G", "H", "I", "J", "K", "L", "M",
               "N", "O", "P", "Q", "R", "S", "T", "U", "V", "W", "X", "Y", "Z">>
LOWERCASE == <<"a", "b", "c", "d", "e", "f", "g", "h", "i", "j", "k", "l", "m",
               "n", "o", "p", "q", "r", "s", "t", "u", "v", "w", "x", "y", "z">>
DIGITS == {"0", "1", "2", "3", "4", "5", "6", "7", "8", "9"}

\* str.upper, on one character and on a string of characters.
Upper(c) == IF c \in Range(LOWERCASE)
            THEN UPPERCASE[CHOOSE j \in DOMAIN LOWERCASE : LOWERCASE[j] = c]
            ELSE c
UpperAll(chars) == [j \in DOMAIN chars |-> Upper(chars[j])]

\* A scanned text: the part up to the code, the code and the hash; a "/" stands
\* between code and hash.
ConstructUrl(code, hash) == [head |-> "https://paka.eco/QR/", code |-> code, hash |-> hash]

\* url_pattern.match with re.IGNORECASE: the two groups, or None.
UrlPatternMatch(url) ==
    LET CodeClass == (Range(UPPERCASE) \ {"I", "O"}) \cup (DIGITS \ {"0", "1"})
        HashClass == Range(UPPERCASE) \cup DIGITS
    IN  IF /\ url.head \in {"https://paka.eco/QR/", "http://paka.eco/QR/"}
           /\ Len(url.code) = CODE_LENGTH
           /\ \A j \in DOMAIN url.code : Upper(url.code[j]) \in CodeClass
           /\ Len(url.hash) = CODE_LENGTH
           /\ \A j \in DOMAIN url.hash : Upper(url.hash[j]) \in HashClass
        THEN {[code |-> url.code, hash |-> url.hash]}
        ELSE {}

\* _parse_scanned_url on the characters
ParseScannedText(url) ==
    {[code |-> UpperAll(match.code), hash |-> UpperAll(match.hash)] :
       match \in UrlPatternMatch(url)}

\* _generate_hmac_hash: six characters of the Base32 alphabet that the key and the
\* code determine; the digest itself is not computed, this function stands for it.
HmacHashOf(code) ==
    [j \in 1..CODE_LENGTH |->
       IF code[CODE_LENGTH + 1 - j] \in Range(UPPERCASE) THEN "7" ELSE "A"]

\* The processor as it would be without the comparison of the hashes.
ProcessScannedTextUnverified(url) ==
    LET parsed_url == ParseScannedText(url)
    IN  IF parsed_url = {}
        THEN [validation |-> "fraud_attempt", is_fraud_attempt |-> TRUE, container_id |-> {}]
        ELSE [validation |-> "valid", is_fraud_attempt |-> FALSE,
              container_id |-> {Some(parsed_url).code}]

\* process_qr_code on the characters
ProcessScannedText(url) ==
    LET parsed_url == ParseScannedText(url)
        fraud == [validation |-> "fraud_attempt", is_fraud_attempt |-> TRUE,
                  container_id |-> {}]
    IN  IF parsed_url = {} THEN fraud
        ELSE IF Some(parsed_url).hash # HmacHashOf(Some(parsed_url).code) THEN fraud
        ELSE [validation |-> "valid", is_fraud_attempt |-> FALSE,
              container_id |-> {Some(parsed_url).code}]

----------------------------------------------------------------------------
(* SEQ3 (uart.py 808-859, 1092-1148) *)

NoQr == "None"
QRCodes == {"QR1"}

\* _handle_seq3_valid_qr / _handle_seq3_invalid_qr up to the ACK wait.
Seq3Feedback(valid) ==
    SendAndWait(<<LightCmd(LIGHT_CONTAINER, IF valid THEN GREEN_ON ELSE RED_ON)>>, "vii", now)

ExecuteSequence3 ==
    /\ Top.fn = "seq3"
    /\ CASE Top.pc = "iii" ->
              /\ seq1_lights_active' = FALSE
              /\ seq1_activation_time' =
                   IF seq1_lights_active THEN NoTime ELSE seq1_activation_time
              /\ waiting_for_qr' = TRUE
              /\ qr_timeout_start' = now
              /\ container_qr_code' = NoQr
              /\ scan_in_wait' = FALSE
              /\ validator_calls' = <<>>
              /\ backend_answer' = NoAnswer
              /\ stack' = WithTop([Top EXCEPT !.pc = "wait"])
              /\ UNCHANGED <<ret, now, tx, message_id_counter, waiting_for_ack, last_ack_id,
                             seq3_completed, seq3_completion_time, containers, audit_logs>>
         [] Top.pc = "wait" ->
              IF waiting_for_qr /\ now - qr_timeout_start < QR_TIMEOUT
              THEN \* time.sleep(0.1) until the loop condition fails: nothing in this
                   \* thread changes waiting_for_qr
                   /\ qr_timeout_start + QR_TIMEOUT <= max_time
                   /\ now' = qr_timeout_start + QR_TIMEOUT
                   /\ UNCHANGED <<stack, ret, tx, message_id_counter, waiting_for_ack,
                                  last_ack_id, seq1_lights_active, seq1_activation_time,
                                  waiting_for_qr, qr_timeout_start, container_qr_code,
                                  seq3_completed, seq3_completion_time, scan_in_wait,
                                  validatorVars>>
              ELSE /\ IF container_qr_code = NoQr
                      THEN /\ SendMessages(tx, <<LightCmd(LIGHT_CONTAINER, RED_ON)>>)
                           /\ stack' = WithTop([Top EXCEPT !.pc = "vii", !.unacked = 1,
                                                           !.timed_out = TRUE,
                                                           !.sent = @ \o <<LightCmd(LIGHT_CONTAINER, RED_ON)>>])
                                         \o <<WaitForAckOf(now, <<LightCmd(LIGHT_CONTAINER, RED_ON)>>,
                                                            message_id_counter)>>
                           /\ waiting_for_ack' = TRUE
                           /\ last_ack_id' = NoTime
                           /\ ret' = FALSE
                           /\ UNCHANGED validatorVars
                      ELSE \E answer \in Answers :
                             LET validation_result ==
                                   ValidateContainerQr(container_qr_code, containers, answer, now)
                             IN  /\ Seq3Feedback(validation_result.result)
                                 /\ containers' = validation_result.containers
                                 /\ audit_logs' = audit_logs \o validation_result.logs
                                 /\ validator_calls' = validation_result.calls
                                 /\ backend_answer' =
                                      IF "validate_container" \in Range(validation_result.calls)
                                      THEN answer ELSE NoAnswer
                   /\ UNCHANGED <<now, seq1_lights_active, seq1_activation_time,
                                  waiting_for_qr, qr_timeout_start, container_qr_code,
                                  seq3_completed, seq3_completion_time, scan_in_wait>>
         [] Top.pc = "vii" ->
              /\ IF ret
                 THEN /\ seq3_completed' = TRUE
                      /\ seq3_completion_time' = now
                      /\ Return(TRUE)
                      /\ UNCHANGED <<tx, message_id_counter, waiting_for_ack, last_ack_id>>
                 ELSE Abort /\ UNCHANGED <<seq3_completed, seq3_completion_time>>
              /\ UNCHANGED <<now, seq1_lights_active, seq1_activation_time,
                             waiting_for_qr, qr_timeout_start, container_qr_code,
                             scan_in_wait, validatorVars>>
    /\ UNCHANGED <<rx, sensor_states, seq2_completed, seq2_completion_time,
                   seq4_in_progress, qr_file, scan_enabled>>
    /\ UNCHANGED <<modeVars, syncVars, mcuVars, owed, handled,
                   healthcheck_outcome, removal_timed_out, dbVars, callVars, absent_seen, last_seq4>>

----------------------------------------------------------------------------
(* SEQ4 (uart.py 1201-1281) and the removal wait (uart.py 1359-1410) *)

\* return False, the finally clause clears the guard.
\* The exit as it would be without the finally clause.
Seq4FinallySkipped == UNCHANGED seq4_in_progress

\* finally: self._seq4_in_progress = False
Seq4Finally == seq4_in_progress' = FALSE

\* The abort as it would be if it reset the cycle.
AbortSequence4Clearing ==
    /\ Abort
    /\ seq4_in_progress' = FALSE
    /\ seq2_completed' = FALSE /\ seq2_completion_time' = NoTime
    /\ seq3_completed' = FALSE /\ seq3_completion_time' = NoTime
    /\ now' = now

\* return False inside the try of _execute_sequence_4: the finally clause runs.
AbortSequence4 ==
    /\ Abort
    /\ Seq4Finally
    /\ UNCHANGED <<now, seq2_completed, seq2_completion_time,
                   seq3_completed, seq3_completion_time>>

ExecuteSequence4 ==
    /\ Top.fn = "seq4"
    /\ CASE Top.pc = "ii" ->
              /\ seq4_in_progress' = TRUE
              /\ SendAndWait(<<ActuatorCmd(ACTUATOR_CONTAINER, STORE)>>, "iii", now)
              /\ UNCHANGED <<now, seq2_completed, seq2_completion_time,
                             seq3_completed, seq3_completion_time>>
         [] Top.pc = "iii" ->
              IF ret
              THEN /\ SendAndWait(<<ActuatorCmd(ACTUATOR_COVER, STORE)>>, "v", now)
                   /\ UNCHANGED <<now, seq4_in_progress, seq2_completed,
                                  seq2_completion_time, seq3_completed, seq3_completion_time>>
              ELSE AbortSequence4
         [] Top.pc = "v" ->
              IF ret
              THEN /\ stack' = WithTop([Top EXCEPT !.pc = "vii", !.unacked = 0])
                                 \o <<[NewFrame("wait_for_both_removals", "poll")
                                         EXCEPT !.start_time = now]>>
                   /\ ret' = FALSE
                   /\ UNCHANGED <<now, tx, message_id_counter, waiting_for_ack, last_ack_id,
                                  seq4_in_progress, seq2_completed, seq2_completion_time,
                                  seq3_completed, seq3_completion_time>>
              ELSE AbortSequence4
         [] Top.pc = "vii" ->
              IF ret
              THEN /\ SendAndWait(AllLightsOff, "ix", now)
                   /\ UNCHANGED <<now, seq4_in_progress, seq2_completed,
                                  seq2_completion_time, seq3_completed, seq3_completion_time>>
              ELSE AbortSequence4
         [] Top.pc = "ix" ->
              IF ret
              THEN /\ seq2_completed' = FALSE
                   /\ seq2_completion_time' = NoTime
                   /\ seq3_completed' = FALSE
                   /\ seq3_completion_time' = NoTime
                   /\ Seq4Finally
                   /\ Return(TRUE)
                   /\ UNCHANGED <<now, tx, message_id_counter, waiting_for_ack, last_ack_id>>
              ELSE AbortSequence4
    /\ absent_seen' = IF Top.pc = "iii" /\ ret THEN {} ELSE absent_seen
    /\ last_seq4' = IF Len(stack') < Len(stack)
                    THEN {[w EXCEPT !.failed = ~ret'] : w \in last_seq4}
                    ELSE last_seq4
    /\ UNCHANGED <<rx, sensor_states, seq1_lights_active, seq1_activation_time>>
    /\ UNCHANGED <<qrVars, modeVars, syncVars, mcuVars, owed, handled, scan_in_wait, histRest>>

InRemovalLoop == Top.fn = "wait_for_both_removals" /\ Top.pc = "poll"
                   /\ (~Top.cover_removed \/ ~Top.container_removed)
                   /\ Elapsed(Top) < REMOVAL_TIMEOUT

WaitForBothRemovalsReturn ==
    /\ Top.fn = "wait_for_both_removals" /\ Top.pc = "poll"
    /\ ~((~Top.cover_removed \/ ~Top.container_removed) /\ Elapsed(Top) < REMOVAL_TIMEOUT)
    /\ Return(Top.cover_removed /\ Top.container_removed)
    /\ removal_timed_out' = ~(Top.cover_removed /\ Top.container_removed)
    /\ absent_seen' = {}
    /\ UNCHANGED last_seq4
    /\ UNCHANGED <<now, linkVars, seqVars, qrVars, modeVars, syncVars, mcuVars, owed, handled,
                   scan_in_wait, healthcheck_outcome, validatorVars, dbVars, callVars>>

WaitForBothRemovalsReceive ==
    /\ InRemovalLoop
    /\ rx # <<>> /\ tx = <<>>
    /\ stack' = WithTop([Top EXCEPT !.msgs = rx, !.pc = "dispatch"])
    /\ rx' = <<>>
    /\ UNCHANGED <<ret, now, tx, message_id_counter, waiting_for_ack, last_ack_id>>
    /\ UNCHANGED <<seqVars, qrVars, modeVars, syncVars, mcuVars, scan_in_wait, histVars>>
    /\ Observe(rx, {})

WaitForBothRemovalsTimeout ==
    /\ InRemovalLoop
    /\ rx = <<>> /\ tx = <<>>
    /\ Top.start_time + REMOVAL_TIMEOUT <= max_time
    /\ now' = Top.start_time + REMOVAL_TIMEOUT
    /\ UNCHANGED <<stack, ret, linkVars, seqVars, qrVars, modeVars, syncVars, mcuVars, obsVars>>

\* One message of the for loop.
WaitForBothRemovalsMessage ==
    /\ Top.fn = "wait_for_both_removals" /\ Top.pc = "dispatch"
    /\ LET m == Head(Top.msgs)
           next == [Top EXCEPT !.msgs = Tail(@), !.pc = AfterMessage(Top.msgs)]
           absent(sensor) == /\ m.type = SENSOR_STATE_CHANGE /\ Len(m.payload) >= 2
                             /\ m.payload[1] = sensor /\ m.payload[2] = NO_DETECTION
       IN  /\ stack' = WithTop([next EXCEPT
                          !.cover_removed = @ \/ absent(SENSOR_COVER),
                          !.container_removed = @ \/ absent(SENSOR_CONTAINER)])
           /\ sensor_states' = [s \in DOMAIN sensor_states |->
                                  IF absent(s) THEN FALSE ELSE sensor_states[s]]
           /\ tx' = IF m.type # ACK THEN Append(tx, CreateAck(m)) ELSE tx
    /\ Observe(<<>>, {})
    /\ absent_seen' = absent_seen \cup ReportedAbsent(Head(Top.msgs))
    /\ UNCHANGED last_seq4
    /\ UNCHANGED <<ret, now, rx, message_id_counter, waiting_for_ack, last_ack_id>>
    /\ UNCHANGED <<seq1_lights_active, seq1_activation_time, seq2_completed,
                   seq2_completion_time, seq3_completed, seq3_completion_time,
                   seq4_in_progress>>
    /\ UNCHANGED <<qrVars, modeVars, syncVars, mcuVars, scan_in_wait, histRest>>

----------------------------------------------------------------------------
(* SEQ5 (uart.py 1283-1357) *)

\* The red warning lights of step iv, cover first.
WarningLights ==
    (IF sensor_states[SENSOR_COVER] THEN <<LightCmd(LIGHT_COVER, RED_ON)>> ELSE <<>>)
      \o (IF sensor_states[SENSOR_CONTAINER] THEN <<LightCmd(LIGHT_CONTAINER, RED_ON)>> ELSE <<>>)

ExecuteSequence5 ==
    /\ Top.fn = "seq5"
    /\ CASE Top.pc = "ii" ->
              /\ SendAndWait(<<ActuatorCmd(ACTUATOR_CONTAINER, OPEN)>>, "ii_cover", now)
              /\ now' = now
         [] Top.pc = "ii_cover" ->
              IF ret
              THEN SendAndWait(<<ActuatorCmd(ACTUATOR_COVER, OPEN)>>, "iii", now) /\ now' = now
              ELSE Abort /\ now' = now
         [] Top.pc = "iii" ->
              IF ret
              THEN /\ now + 2 <= max_time
                   /\ now' = now + 2
                   /\ IF WarningLights # <<>>
                      THEN SendAndWait(WarningLights, "v", now + 2)
                      ELSE /\ Return(TRUE)
                           /\ UNCHANGED <<tx, message_id_counter, waiting_for_ack, last_ack_id>>
              ELSE Abort /\ now' = now
         [] Top.pc = "v" ->
              /\ IF ret
                 THEN /\ Return(TRUE)
                      /\ UNCHANGED <<tx, message_id_counter, waiting_for_ack, last_ack_id>>
                 ELSE Abort
              /\ now' = now
    /\ UNCHANGED <<rx, seqVars, qrVars, modeVars, syncVars, mcuVars, obsVars>>


----------------------------------------------------------------------------
(* Inactive and secure mode (main.py 377-593).  g is the record of the two *)
(* gates, the reader's scan_enabled and the commands sent so far.          *)

\* Both lights red, doors blocked / lights off, doors unblocked.
RestrictCmds == <<LightCmd(LIGHT_COVER, RED_ON), LightCmd(LIGHT_CONTAINER, RED_ON),
                  DoorCmd(BLOCK)>>
ReleaseCmds == AllLightsOff \o <<DoorCmd(UNBLOCK)>>

EnterInactiveMode(g) ==
    [g EXCEPT !.device_inactive = TRUE, !.cmds = @ \o RestrictCmds, !.scan_enabled = FALSE]

ExitInactiveMode(g) ==
    [g EXCEPT !.device_inactive = FALSE, !.cmds = @ \o ReleaseCmds, !.scan_enabled = TRUE]

EnterSecureMode(g) ==
    [g EXCEPT !.device_secure_mode = TRUE, !.cmds = @ \o RestrictCmds, !.scan_enabled = FALSE]

ExitSecureMode(g) ==
    IF ~g.device_inactive
    THEN [g EXCEPT !.device_secure_mode = FALSE, !.cmds = @ \o ReleaseCmds,
                   !.scan_enabled = TRUE]
    ELSE [g EXCEPT !.device_secure_mode = FALSE]

OnDeviceStatusChange(active, g) == IF ~active THEN EnterInactiveMode(g) ELSE ExitInactiveMode(g)

OnSecureModeChange(secure_mode, g) == IF secure_mode THEN EnterSecureMode(g) ELSE ExitSecureMode(g)

Gates == [device_inactive |-> device_inactive, device_secure_mode |-> device_secure_mode,
          scan_enabled |-> scan_enabled, cmds |-> <<>>]

\* The callbacks' effects on the application, written back.
SetGates(g) ==
    /\ device_inactive' = g.device_inactive
    /\ device_secure_mode' = g.device_secure_mode
    /\ scan_enabled' = g.scan_enabled
    /\ SendMessages(tx, g.cmds)

----------------------------------------------------------------------------
(* Sync service: healthcheck and secure-mode watchdog (service.py 45-136,  *)
(* 322-365)                                                                *)

\* What the backend does with a healthcheck: success with active true, false or
\* absent, a response without success, or no response (the client raises).
Outcomes == {"active", "inactive", "no_status", "unsuccessful", "exception"}

\* No healthcheck was due in this iteration.
NoOutcome == "none"

HealthcheckDue(current_time) == current_time - last_healthcheck >= HEALTHCHECK_INTERVAL

\* _check_secure_mode's test on the row's last_seen_at.
ShouldBeSecure(last_seen) == now - last_seen > SECURE_MODE_THRESHOLD

\* _do_healthcheck with the backend's outcome, _check_secure_mode included.
DoHealthcheck(outcome) ==
    LET success == outcome \in {"active", "inactive", "no_status"}
        reported == outcome \in {"active", "inactive"}
        active_bool == outcome = "active"
        last_seen == IF success THEN now ELSE db_last_seen_at
        status_changed == reported /\ last_active_status # {}
                            /\ last_active_status # {active_bool}
        g1 == IF status_changed THEN OnDeviceStatusChange(active_bool, Gates) ELSE Gates
        should_be_secure == ShouldBeSecure(last_seen)
        secure_changed == last_secure_mode_status # {}
                            /\ last_secure_mode_status # {should_be_secure}
        g2 == IF secure_changed THEN OnSecureModeChange(should_be_secure, g1) ELSE g1
    IN  /\ db_last_seen_at' = last_seen
        /\ db_active' = IF reported THEN active_bool ELSE db_active
        /\ last_active_status' = IF reported THEN {active_bool} ELSE last_active_status
        /\ db_update_failures' =
             IF outcome = "exception" THEN db_update_failures + 1 ELSE db_update_failures
        /\ db_is_in_safe_mode' = should_be_secure
        /\ last_secure_mode_status' = {should_be_secure}
        /\ secure_callbacks' =
             IF secure_changed THEN Append(secure_callbacks, should_be_secure)
             ELSE secure_callbacks
        /\ SetGates(g2)
        /\ unreachable_since' =
             IF outcome # "exception" THEN NoTime
             ELSE IF unreachable_since = NoTime THEN now ELSE unreachable_since

\* check_and_run with the backend answering as outcomes allows.
CheckAndRun(outcomes) ==
    /\ Top.fn = "main" /\ Top.pc = "api"
    /\ stack' = WithTop([Top EXCEPT !.pc = "scan"])
    /\ IF HealthcheckDue(now)
       THEN /\ \E outcome \in outcomes : /\ DoHealthcheck(outcome)
                                           /\ healthcheck_outcome' = outcome
            /\ last_healthcheck' = now
       ELSE UNCHANGED <<db_last_seen_at, db_active, last_active_status, db_update_failures,
                        db_is_in_safe_mode, last_secure_mode_status, secure_callbacks,
                        device_inactive, device_secure_mode, scan_enabled, tx,
                        message_id_counter, unreachable_since, last_healthcheck,
                        healthcheck_outcome>>
    /\ UNCHANGED <<ret, now, rx, waiting_for_ack, last_ack_id, seqVars, waiting_for_qr,
                   qr_timeout_start, container_qr_code, qr_file, loop_counter, max_time,
                   mcuVars, owed, handled, scan_in_wait, removal_timed_out, validatorVars, dbVars, callVars,
                   absent_seen, last_seq4>>

ApiCheckAndRun == CheckAndRun(Outcomes)

\* The same call while the backend cannot be reached.
ApiCheckAndRunUnreachable == CheckAndRun({"exception"})

----------------------------------------------------------------------------
(* QR reader (scanner.py) *)

InQrWait == Top.fn = "seq3" /\ Top.pc = "wait" /\ waiting_for_qr
              /\ now - qr_timeout_start < QR_TIMEOUT

\* The input thread completes a scan: _write_qr_to_file.
HidScan ==
    /\ AtBlockingPoint
    /\ scan_enabled
    /\ env_events < MaxEvents
    /\ env_events' = env_events + 1
    /\ \E code \in QRCodes : qr_file' = code
    /\ scan_in_wait' = (scan_in_wait \/ InQrWait)
    /\ UNCHANGED <<ctlVars, linkVars, seqVars, waiting_for_qr, qr_timeout_start,
                   container_qr_code, scan_enabled, modeVars, syncVars, mcu_msg_id,
                   mcu_sensor, mcu_removing, mcu_removed, mcu_replaced, mcu_white, owed, handled,
                   histVars>>

\* check_for_scans: _read_qr_from_file, then _process_scan.
CheckForScans ==
    /\ Top.fn = "main" /\ Top.pc = "scan"
    /\ stack' = WithTop([Top EXCEPT !.pc = "sleep"])
    /\ qr_file' = NoQr
    /\ IF qr_file # NoQr /\ waiting_for_qr
       THEN /\ container_qr_code' = qr_file
            /\ waiting_for_qr' = FALSE
       ELSE UNCHANGED <<container_qr_code, waiting_for_qr>>
    /\ healthcheck_outcome' = NoOutcome
    /\ UNCHANGED <<ret, now, linkVars, seqVars, qr_timeout_start, scan_enabled,
                   modeVars, syncVars, mcuVars, owed, handled, scan_in_wait,
                   removal_timed_out, validatorVars, dbVars, callVars, absent_seen, last_seq4>>

----------------------------------------------------------------------------
(* End of a main-loop iteration (main.py 216-222) *)

\* The d - 1 iterations after this one find nothing to do: no frame, no scan, no
\* timer due, no refresh of last_seen_at.
Quiet(d) ==
    \/ d = 1
    \/ /\ rx = <<>> /\ qr_file = NoQr
       /\ ~Seq1LightTimeout(now + d - 1)
       /\ ~CheckSequence4Trigger(now + d - 1)
       /\ ~HealthcheckDue(now + d - 1)
       /\ loop_counter + d - 1 < SEEN_PERIOD

\* The iterations up to the next one with work to do, or up to the one before it.
IdleSteps == {d \in 1..SEEN_PERIOD : Quiet(d) /\ ~Quiet(d + 2)}

\* update_seen_time every SEEN_PERIOD iterations, sleep(1), loop_counter += 1;
\* d - 1 idle iterations are taken with it.
MainLoopEnd ==
    /\ Top.fn = "main" /\ Top.pc = "sleep"
    /\ tx = <<>>
    /\ \E d \in IdleSteps :
         /\ now + d <= max_time
         /\ now' = now + d
         /\ loop_counter' = (loop_counter + d) % SEEN_PERIOD
    /\ db_last_seen_at' = IF loop_counter = 0 THEN now ELSE db_last_seen_at
    /\ stack' = WithTop([Top EXCEPT !.pc = "process"])
    /\ UNCHANGED <<ret, linkVars, seqVars, qrVars, modeVars, db_is_in_safe_mode, db_active,
                   db_update_failures, last_healthcheck, last_active_status,
                   last_secure_mode_status, max_time, unreachable_since, secure_callbacks,
                   mcuVars, obsVars>>

----------------------------------------------------------------------------
(* Microcontroller (tools/hardware_sim_com7.py) *)

NextMcuId == (mcu_msg_id + 1) % ID_MODULUS

\* _handle_light_control: the white lights after the command frame m.  A light
\* takes the colour it is sent; DISABLE_ALL puts both lights out.
HandleLightControl(m, white) ==
    IF m.type # LIGHT_MANAGEMENT \/ Len(m.payload) < 3 THEN white
    ELSE LET position == IF m.payload[1] = LIGHT_CONTAINER THEN LIGHT_CONTAINER ELSE LIGHT_COVER
             color == m.payload[2]
         IN  CASE color = DISABLE_ALL -> {}
               [] color = WHITE_ON -> white \cup {position}
               [] OTHER -> white \ {position}

\* The MCU reads the next frame and acknowledges a command (_handle_pi_message);
\* a store movement takes away what the sensors detect (_auto_remove_items).
McuAcknowledge ==
    /\ AtBlockingPoint
    /\ tx # <<>>
    /\ tx' = Tail(tx)
    /\ IF IsCommand(Head(tx))
       THEN /\ rx' = Append(rx, Msg(ACK, NextMcuId, <<Head(tx).type, Head(tx).id>>))
            /\ mcu_msg_id' = NextMcuId
       ELSE UNCHANGED <<rx, mcu_msg_id>>
    /\ mcu_removing' =
         IF Head(tx).type = ACTUATOR_MOVEMENT /\ Head(tx).payload[2] = STORE
         THEN mcu_removing \cup {s \in DOMAIN mcu_sensor : mcu_sensor[s]}
         ELSE mcu_removing
    /\ mcu_white' = HandleLightControl(Head(tx), mcu_white)
    /\ UNCHANGED <<ctlVars, message_id_counter, waiting_for_ack, last_ack_id, seqVars,
                   qrVars, modeVars, syncVars, mcu_sensor, mcu_removed, mcu_replaced, env_events, obsVars>>

\* A command is lost on the line: no acknowledgement follows.
McuLoseCommand ==
    /\ AtBlockingPoint
    /\ tx # <<>> /\ IsCommand(Head(tx))
    /\ env_events < MaxEvents
    /\ env_events' = env_events + 1
    /\ tx' = Tail(tx)
    /\ UNCHANGED <<ctlVars, rx, message_id_counter, waiting_for_ack, last_ack_id, seqVars,
                   qrVars, modeVars, syncVars, mcu_msg_id, mcu_sensor, mcu_removing,
                   mcu_removed, mcu_replaced, mcu_white, obsVars>>

\* The MCU sends a frame of its own (send_message).
McuSend(type, payload) ==
    /\ AtBlockingPoint
    /\ Len(rx) < MaxRx
    /\ rx' = Append(rx, Msg(type, NextMcuId, payload))
    /\ mcu_msg_id' = NextMcuId
    /\ UNCHANGED <<ctlVars, tx, message_id_counter, waiting_for_ack, last_ack_id, seqVars,
                   qrVars, modeVars, syncVars, obsVars>>

\* send_button_press
McuButton ==
    /\ env_events < MaxEvents
    /\ env_events' = env_events + 1
    /\ McuSend(BUTTON_PUSHED, <<>>)
    /\ UNCHANGED <<mcu_sensor, mcu_removing, mcu_removed, mcu_replaced, mcu_white>>

\* The MCU reports an error.
McuError ==
    /\ env_events < MaxEvents
    /\ env_events' = env_events + 1
    /\ McuSend(ERROR_MSG, <<1>>)
    /\ UNCHANGED <<mcu_sensor, mcu_removing, mcu_removed, mcu_replaced, mcu_white>>

\* send_cover_detected / send_container_detected: an item is placed.
McuDetect ==
    \E sensor \in DOMAIN mcu_sensor :
        /\ ~mcu_sensor[sensor]
        /\ mcu_sensor' = [mcu_sensor EXCEPT ![sensor] = TRUE]
        /\ env_events < MaxEvents
        /\ env_events' = env_events + 1
        /\ McuSend(SENSOR_STATE_CHANGE, <<sensor, DETECTION>>)
        /\ UNCHANGED <<mcu_removing, mcu_removed, mcu_replaced, mcu_white>>

\* An item is placed again right after a store movement has taken one away; it is
\* the last thing the environment does of its own.
McuDetectAgain ==
    \E sensor \in DOMAIN mcu_sensor :
        /\ ~mcu_sensor[sensor]
        /\ mcu_removed # NoTime /\ now - mcu_removed <= MaxReplaceDelay
        /\ mcu_replaced < MaxReplaced
        /\ mcu_replaced' = mcu_replaced + 1
        /\ mcu_sensor' = [mcu_sensor EXCEPT ![sensor] = TRUE]
        /\ env_events' = MaxEvents
        /\ McuSend(SENSOR_STATE_CHANGE, <<sensor, DETECTION>>)
        /\ UNCHANGED <<mcu_removing, mcu_removed, mcu_white>>

\* _auto_remove_items: the stored item leaves its sensor.
McuAutoRemove ==
    \E sensor \in mcu_removing :
        /\ mcu_sensor[sensor]
        /\ mcu_sensor' = [mcu_sensor EXCEPT ![sensor] = FALSE]
        /\ mcu_removing' = mcu_removing \ {sensor}
        /\ mcu_removed' = now
        /\ McuSend(SENSOR_STATE_CHANGE, <<sensor, NO_DETECTION>>)
        /\ UNCHANGED <<mcu_replaced, mcu_white, env_events>>

----------------------------------------------------------------------------
(* The program after initialize_components (main.py 128-189, 451-593) *)

\* The device-status row found at start-up: written by an earlier run, or created
\* now by the database layer.
StaleAge == SECURE_MODE_THRESHOLD + 24 * 60 * 60
Rows == [active : BOOLEAN, is_in_safe_mode : BOOLEAN, age : {0, StaleAge}]
FreshRow == [active |-> TRUE, is_in_safe_mode |-> FALSE, age |-> 0]

\* _initialize_device_status, then _initialize_secure_mode_status.
InitialGates(row) ==
    LET g0 == [device_inactive |-> FALSE, device_secure_mode |-> FALSE,
               scan_enabled |-> TRUE, cmds |-> <<>>]
        g1 == IF ~row.active THEN EnterInactiveMode(g0) ELSE g0
    IN  IF row.is_in_safe_mode THEN EnterSecureMode(g1) ELSE g1

InitEngine(row, horizon, store) ==
    /\ stack = <<NewFrame("main", "process")>>
    /\ ret = FALSE
    /\ now = StartTime
    /\ max_time = StartTime + horizon
    /\ rx = <<>>
    /\ tx = Frames(InitialGates(row).cmds, 0)
    /\ message_id_counter = Len(InitialGates(row).cmds)
    /\ waiting_for_ack = FALSE
    /\ last_ack_id = NoTime
    /\ sensor_states = [s \in {SENSOR_COVER, SENSOR_CONTAINER} |-> FALSE]
    /\ seq1_lights_active = FALSE /\ seq1_activation_time = NoTime
    /\ seq2_completed = FALSE /\ seq2_completion_time = NoTime
    /\ seq3_completed = FALSE /\ seq3_completion_time = NoTime
    /\ seq4_in_progress = FALSE
    /\ waiting_for_qr = FALSE /\ qr_timeout_start = NoTime /\ container_qr_code = NoQr
    /\ qr_file = NoQr
    /\ scan_enabled = InitialGates(row).scan_enabled
    /\ device_inactive = InitialGates(row).device_inactive
    /\ device_secure_mode = InitialGates(row).device_secure_mode
    /\ db_last_seen_at = StartTime - row.age
    /\ db_is_in_safe_mode = row.is_in_safe_mode
    /\ db_active = row.active
    /\ db_update_failures = 0
    /\ last_healthcheck = 0
    /\ last_active_status = IF row.active THEN {TRUE} ELSE {}
    /\ last_secure_mode_status = {}
    /\ loop_counter = 0
    /\ mcu_msg_id = 0
    /\ mcu_sensor = [s \in {SENSOR_COVER, SENSOR_CONTAINER} |-> FALSE]
    /\ mcu_removing = {}
    /\ mcu_removed = NoTime
    /\ mcu_replaced = 0
    /\ mcu_white = {}
    /\ env_events = 0
    /\ owed = {} /\ handled = {}
    /\ scan_in_wait = FALSE
    /\ unreachable_since = NoTime
    /\ secure_callbacks = <<>> /\ unmodified = {}
    /\ healthcheck_outcome = NoOutcome
    /\ removal_timed_out = FALSE
    /\ absent_seen = {}
    /\ last_seq4 = {}
    /\ containers = store
    /\ audit_logs = <<>>
    /\ validator_calls = <<>>
    /\ backend_answer = NoAnswer

\* No function is called on its own.
NoCall == [fn |-> "none"]

InitStore(row, horizon, store) ==
    /\ InitEngine(row, horizon, store)
    /\ db_last_sync_at = StartTime /\ initial_sync_done = TRUE
    /\ call = NoCall /\ returned = {}

\* The program after start-up with no container in its store.
InitWith(row, horizon) == InitStore(row, horizon, {})

Init == \E row \in Rows : InitWith(row, Horizon)

Engine ==
    \/ MainProcessMessages \/ ProcessMessage \/ CheckAutomaticSequences
    \/ AfterSequence4 \/ ProcessMessagesReturn
    \/ WaitForAckReturn \/ WaitForAckReceive \/ WaitForAckTimeout
    \/ WaitForAckDispatch \/ WaitForAckSendAck
    \/ ExecuteSequence1 \/ ExecuteSequence2 \/ ExecuteSequence3
    \/ ExecuteSequence4 \/ ExecuteSequence5
    \/ WaitForBothRemovalsReturn \/ WaitForBothRemovalsReceive
    \/ WaitForBothRemovalsTimeout \/ WaitForBothRemovalsMessage
    \/ CheckForScans \/ MainLoopEnd

Environment ==
    \/ McuAcknowledge \/ McuLoseCommand \/ McuButton \/ McuError
    \/ McuDetect \/ McuAutoRemove \/ McuDetectAgain \/ HidScan

Next == Engine \/ ApiCheckAndRun \/ Environment

Spec == Init /\ [][Next]_vars

\* The kiosk with a client that calls wait_for_ack_or_sensor.
LinkClient ==
    \/ CallWaitForAckOrSensor \/ WaitForAckOrSensorReceive \/ WaitForAckOrSensorTimeout
    \/ WaitForAckOrSensorMessage \/ WaitForAckOrSensorReturn

InitLink == InitWith(FreshRow, Horizon)

NextLink == Next \/ LinkClient

SpecLink == InitLink /\ [][NextLink]_vars

\* The kiosk left alone while the backend cannot be reached.
InitSync == InitWith(FreshRow, SyncHorizon)

NextSync ==
    \/ MainProcessMessages \/ CheckAutomaticSequences
    \/ ApiCheckAndRunUnreachable \/ CheckForScans \/ MainLoopEnd

SpecSync == InitSync /\ [][NextSync]_vars

\* A poll of wait_for_ack finds frames in the buffer while the MCU has not yet
\* read everything the Pi wrote: its answers to that arrive after this poll.
WaitForAckReceiveEarly ==
    /\ InWaitForAckLoop
    /\ rx # <<>> /\ tx # <<>>
    /\ stack' = WithTop([Top EXCEPT !.msgs = rx, !.pc = "dispatch"])
    /\ rx' = <<>>
    /\ UNCHANGED <<ret, now, tx, message_id_counter, waiting_for_ack, last_ack_id>>
    /\ UNCHANGED <<seqVars, qrVars, modeVars, syncVars, mcuVars, scan_in_wait, histVars>>
    /\ Observe(rx, {})

\* The user opens the cycle: the first thing the MCU sends is a button press.
McuFirstButton ==
    /\ mcu_msg_id = 0 /\ env_events = 0
    /\ McuSend(BUTTON_PUSHED, <<>>)
    /\ UNCHANGED <<mcu_sensor, mcu_removing, mcu_removed, mcu_replaced, mcu_white, env_events>>

\* The kiosk in its first seconds, with an MCU that answers at its own pace.
InitAck == InitWith(FreshRow, QrHorizon)

NextAck ==
    \/ MainProcessMessages \/ ProcessMessage \/ CheckAutomaticSequences
    \/ WaitForAckReturn \/ WaitForAckReceive \/ WaitForAckReceiveEarly
    \/ WaitForAckTimeout \/ WaitForAckDispatch \/ WaitForAckSendAck
    \/ ExecuteSequence1 \/ ExecuteSequence2 \/ ExecuteSequence3
    \/ ApiCheckAndRun \/ CheckForScans \/ MainLoopEnd
    \/ McuAcknowledge \/ McuLoseCommand \/ McuFirstButton \/ McuButton \/ McuError
    \/ McuDetect

SpecAck == InitAck /\ [][NextAck]_vars

\* The kiosk with a client that hands the scan to the engine (handle_qr_scan)
\* while SEQ3 sleeps in its QR wait, over the stores a sync may have left.
HandleQrScan ==
    /\ InQrWait
    /\ \E qr_code \in Scans : container_qr_code' = qr_code
    /\ waiting_for_qr' = FALSE
    /\ UNCHANGED <<ctlVars, linkVars, seqVars, qr_timeout_start, qr_file, scan_enabled,
                   modeVars, syncVars, mcuVars, obsVars>>

\* Due dates before, at and after the start of the run, with and without an offset.
DueDates ==
    {{}} \cup {{[time |-> t, tzinfo |-> TRUE]} :
                  t \in {StartTime - 1, StartTime, StartTime + QrHorizon + 1}}
         \cup {{[time |-> StartTime + QrHorizon + 1, tzinfo |-> FALSE]}}

Stores ==
    {{}} \cup {{[id |-> "c-1", qr_code |-> "ABCDEF", is_returnable |-> r, due_date |-> d,
                 updated_at |-> StartTime - 1]} : r \in BOOLEAN, d \in DueDates}

InitQr == \E store \in Stores : InitStore(FreshRow, QrHorizon, store)

NextQr ==
    \/ MainProcessMessages \/ ProcessMessage \/ CheckAutomaticSequences
    \/ WaitForAckReturn \/ WaitForAckReceive \/ WaitForAckTimeout
    \/ WaitForAckDispatch \/ WaitForAckSendAck
    \/ ExecuteSequence2 \/ ExecuteSequence3
    \/ ApiCheckAndRun \/ CheckForScans \/ MainLoopEnd
    \/ McuAcknowledge \/ McuLoseCommand \/ McuDetect
    \/ HandleQrScan

SpecQr == InitQr /\ [][NextQr]_vars

----------------------------------------------------------------------------
(* The store and the sync service (database/connection.py 120-161,            *)
(* database/crud.py, audit/logger.py 28-72, api/service.py 138-266)           *)

MaxOps == 4

\* FOREIGN KEY (containerId) REFERENCES Container(id), with foreign_keys = ON.
ForeignKeyHolds(store, logs) ==
    \A j \in DOMAIN logs : logs[j].container_id \subseteq {c.id : c \in store}

\* AuditLogCRUD.create_log as it would be without the foreign key.
CreateLogUnchecked(store, logs, log_data, time) ==
    {Append(logs, [id |-> <<time, Len(logs)>>, type |-> log_data.type,
                   description |-> log_data.description,
                   is_offline_action |-> log_data.is_offline_action,
                   container_id |-> log_data.container_id, created_at |-> time])}

\* AuditLogCRUD.create_log: the table with the new row under a fresh id, or no
\* table when the insertion fails (DatabaseError).
CreateLog(store, logs, log_data, time) ==
    LET row == [id |-> <<time, Len(logs)>>, type |-> log_data.type,
                description |-> log_data.description,
                is_offline_action |-> log_data.is_offline_action,
                container_id |-> log_data.container_id, created_at |-> time]
    IN  IF ForeignKeyHolds(store, <<row>>) THEN {Append(logs, row)} ELSE {}

\* What _log_to_database adds to the description when it stores the entry again.
NotFoundInDb == "not found in DB"

\* AuditLogger._log_to_database: the table after the call; the call does not raise.
\* A description is the sequence of its parts.
LogToDatabase(store, logs, log, time) ==
    LET audit_log == [type |-> log.type, description |-> <<log.description>>,
                      is_offline_action |-> log.is_offline_action,
                      container_id |-> log.container_id]
        created == CreateLog(store, logs, audit_log, time)
        again == CreateLog(store, logs,
                           [audit_log EXCEPT
                              !.description = @ \o <<Some(log.container_id), NotFoundInDb>>,
                              !.container_id = {}],
                           time)
    IN  IF created # {} THEN Some(created)
        ELSE IF log.container_id # {} /\ again # {} THEN Some(again)
        ELSE logs

\* AuditLogCRUD.get_logs_since and what is left when those rows are deleted one
\* by one (delete_log).
GetLogsSince(logs, since) == SelectSeq(logs, LAMBDA log : log.created_at >= since)
DeleteLogs(logs, deleted) ==
    SelectSeq(logs, LAMBDA log : log.id \notin {deleted[j].id : j \in DOMAIN deleted})

\* ContainerCRUD.get_since
GetSince(store, since) == {c \in store : c.updated_at > since}

\* ContainerCRUD.delete_all: the empty table, or no table when a log refers to a
\* container.
ContainersDeleteAll(store, logs) == IF ForeignKeyHolds({}, logs) THEN {{}} ELSE {}

\* datetime.fromisoformat of a dueTime whose "Z" is replaced by "+00:00".
ParseDueTime(due_time) ==
    {[time |-> d.time, tzinfo |-> d.offset \in {"Z", "+00:00"}] : d \in due_time}

\* ContainerCRUD.create_with_id under PRIMARY KEY (id) and UNIQUE (qrCode).
CreateWithId(store, container_data, time) ==
    IF \E c \in store : c.id = container_data.id \/ c.qr_code = container_data.qrCode
    THEN {}
    ELSE {store \cup {[id |-> container_data.id, qr_code |-> container_data.qrCode,
                       is_returnable |-> container_data.isReturnable,
                       due_date |-> ParseDueTime(container_data.dueTime),
                       updated_at |-> time]}}

\* The insertions of _update_containers: the table, and whether one has raised.
RECURSIVE InsertContainers(_, _, _)
InsertContainers(store, containers_data, time) ==
    IF containers_data = <<>> THEN [containers |-> store, raised |-> FALSE]
    ELSE LET container_data == Head(containers_data)
             created == CreateWithId(store, container_data, time)
         IN  IF container_data.id = "" \/ container_data.qrCode = ""
             THEN InsertContainers(store, Tail(containers_data), time)
             ELSE IF created = {} THEN [containers |-> store, raised |-> TRUE]
             ELSE InsertContainers(Some(created), Tail(containers_data), time)

\* _update_containers as it would be if it kept the containers it has.
UpdateContainersKeeping(store, logs, containers_data, time) ==
    InsertContainers(store, containers_data, time)

\* _update_containers
UpdateContainers(store, logs, containers_data, time) ==
    IF ContainersDeleteAll(store, logs) = {} THEN [containers |-> store, raised |-> TRUE]
    ELSE InsertContainers({}, containers_data, time)

\* The containers of a sync response: at most two, each with id, qrCode,
\* isReturnable and possibly dueTime; two of them may share an id or a qrCode.
ResponseContainer(id, qrCode, isReturnable, dueTime) ==
    [id |-> id, qrCode |-> qrCode, isReturnable |-> isReturnable, dueTime |-> dueTime]
ResponseContainers ==
    LET due == {[time |-> StartTime + MaxOps, offset |-> "Z"]}
    IN  {ResponseContainer("c-1", "ABCDEF", TRUE, {}),
         ResponseContainer("c-1", "ABCDEF", FALSE, due),
         ResponseContainer("c-2", "GHJKLM", TRUE, due),
         ResponseContainer("c-2", "ABCDEF", TRUE, {}),
         ResponseContainer("c-1", "GHJKLM", FALSE, {})}
SyncResponses ==
    {[exception |-> TRUE], [success |-> FALSE]}
    \cup {[success |-> TRUE, data |-> data] :
            data \in {<<>>} \cup {<<a>> : a \in ResponseContainers}
                            \cup {<<a, b>> : a, b \in ResponseContainers}}

\* Whether the response carries success.
Success(response) == "success" \in DOMAIN response /\ response.success

\* One more operation on the store is observed.
DbStep == now < max_time /\ now' = now + 1

dbRest == <<stack, ret, max_time, linkVars, seqVars, qrVars, modeVars, syncVars, mcuVars,
            owed, handled, scan_in_wait, healthcheck_outcome, removal_timed_out,
            validator_calls, backend_answer, absent_seen, last_seq4>>

\* _do_initial_sync as it would be if it deleted the local data only once the
\* backend has answered.
DoInitialSyncDeletingLate ==
    /\ ~initial_sync_done /\ DbStep
    /\ \E response \in SyncResponses :
         LET updated == UpdateContainers({}, <<>>, response.data, now)
         IN  /\ audit_logs' = <<>>
             /\ containers' = IF Success(response) THEN updated.containers ELSE containers
             /\ db_last_sync_at' = IF Success(response) /\ ~updated.raised
                                   THEN now ELSE db_last_sync_at
             /\ call' = [fn |-> "_do_initial_sync", logs |-> <<>>, containers |-> {},
                         response |-> response]
             /\ returned' = {IF ~Success(response) THEN "failed"
                             ELSE IF updated.raised THEN "error" ELSE "complete"}
    /\ initial_sync_done' = TRUE
    /\ unmodified' = {}
    /\ UNCHANGED dbRest

\* check_and_run's first call: _do_initial_sync.
DoInitialSync ==
    /\ ~initial_sync_done /\ DbStep
    /\ \E response \in SyncResponses :
         LET updated == UpdateContainers({}, <<>>, response.data, now)
         IN  /\ audit_logs' = <<>>
             /\ containers' = IF Success(response) THEN updated.containers ELSE {}
             /\ db_last_sync_at' = IF Success(response) /\ ~updated.raised
                                   THEN now ELSE db_last_sync_at
             /\ call' = [fn |-> "_do_initial_sync", logs |-> <<>>, containers |-> {},
                         response |-> response]
             /\ returned' = {IF ~Success(response) THEN "failed"
                             ELSE IF updated.raised THEN "error" ELSE "complete"}
    /\ initial_sync_done' = TRUE
    /\ unmodified' = {}
    /\ UNCHANGED dbRest

\* _do_sync, when check_and_run finds it due.
DoSync ==
    /\ initial_sync_done /\ DbStep
    /\ \E response \in SyncResponses :
         LET old_last_sync_at == db_last_sync_at
             new_sync_time == now
             logs == GetLogsSince(audit_logs, old_last_sync_at)
             filtered_logs == SelectSeq(logs, LAMBDA log : log.container_id # {})
             deleted == DeleteLogs(audit_logs, logs)
             \* create_with_id's utcnow() comes after the request
             updated == UpdateContainers(containers, deleted, response.data, now + 1)
         IN  /\ audit_logs' = IF Success(response) THEN deleted ELSE audit_logs
             /\ containers' = IF Success(response) THEN updated.containers ELSE containers
             /\ db_last_sync_at' = IF Success(response) /\ ~updated.raised
                                   THEN new_sync_time ELSE db_last_sync_at
             /\ call' = [fn |-> "_do_sync", logs |-> filtered_logs,
                         containers |-> GetSince(containers, old_last_sync_at),
                         response |-> response]
             /\ returned' = {IF ~Success(response) THEN "failed"
                             ELSE IF updated.raised THEN "error" ELSE "complete"}
             /\ unmodified' = IF ~Success(response) THEN unmodified
                              ELSE IF updated.raised THEN {}
                              ELSE {c.id : c \in updated.containers}
    /\ UNCHANGED <<initial_sync_done, dbRest>>

\* A component writes an audit entry, with or without a container reference.
LogEvent ==
    /\ initial_sync_done /\ DbStep
    /\ \E type \in {"INFO", "ERROR"}, container_id \in {{}, {"c-1"}, {"c-2"}} :
         LET log == AuditLog(type, "event", "", container_id, FALSE)
         IN  /\ audit_logs' = LogToDatabase(containers, audit_logs, log, now)
             /\ call' = [fn |-> "_log_to_database", log |-> log]
    /\ returned' = {"None"}
    /\ UNCHANGED <<containers, dbVars, dbRest>>

\* A scan is validated and its audit entry written.
ValidateScan ==
    /\ initial_sync_done /\ DbStep
    /\ \E qr_code \in Scans, answer \in Answers :
         LET validation_result == ValidateContainerQr(qr_code, containers, answer, now)
         IN  /\ containers' = validation_result.containers
             /\ audit_logs' =
                  IF validation_result.logs = <<>> THEN audit_logs
                  ELSE LogToDatabase(validation_result.containers, audit_logs,
                                     validation_result.logs[1], now)
             /\ call' = [fn |-> "_validate_container_qr", qr_code |-> qr_code]
             /\ returned' = {validation_result.result}
             /\ unmodified' = {c.id : c \in containers \cap validation_result.containers}
                                \cap unmodified
    /\ UNCHANGED <<db_last_sync_at, initial_sync_done, dbRest>>

\* Start-up with the store a previous run has left.
InitDb ==
    \E store \in Stores :
       /\ InitEngine(FreshRow, MaxOps, store)
       /\ db_last_sync_at = StartTime - 1 /\ initial_sync_done = FALSE
       /\ call = NoCall /\ returned = {}

NextDb == DoInitialSync \/ DoSync \/ LogEvent \/ ValidateScan

SpecDb == InitDb /\ [][NextDb]_vars

----------------------------------------------------------------------------
(* Functions called on their own, with arguments drawn from bounded sets *)

engineVars == <<ctlVars, linkVars, seqVars, qrVars, modeVars, syncVars, mcuVars,
                owed, handled, scan_in_wait, healthcheck_outcome, removal_timed_out,
                validatorVars, dbVars, absent_seen, last_seq4>>

\* Codes over two characters of the allowed alphabet, and what may stand in the
\* place of a character of the hash.
Codes == [1..CODE_LENGTH -> {"A", "9"}]
Replacements == {"A", "7", "B", "0", "a", "-"}

\* The URL of a code and its hash, as it is and with one character replaced.
ScannedUrls ==
    {ConstructUrl(code, HmacHashOf(code)) : code \in Codes}
    \cup {ConstructUrl(code, [HmacHashOf(code) EXCEPT ![j] = c]) :
            code \in Codes, j \in 1..CODE_LENGTH, c \in Replacements}

\* Messages with a defined type, an id in 0..99 and a payload of 0, 1, 2 or 255
\* bytes, the frame bytes among them.
MaxSends == 101
MaxAcks == 1
Bytes == {0, 1, START_BYTE, END_BYTE, 255}
Payloads ==
    {<<>>} \cup {<<b>> : b \in Bytes} \cup {<<a, b>> : a, b \in Bytes}
           \cup {[j \in 1..MAX_PAYLOAD_LENGTH |-> b] : b \in Bytes}
Messages == {Msg(t, i, p) : t \in MessageTypes, i \in {0, 1, ID_MODULUS - 1}, p \in Payloads}

\* The bytes of one or two frames, cut in two at position k: the first k bytes are
\* waiting at the first receive_messages, the others at the second.
Arrivals ==
    LET sensor == Msg(SENSOR_STATE_CHANGE, 1, <<SENSOR_COVER, DETECTION>>)
        button == Msg(BUTTON_PUSHED, 2, <<>>)
        streams == {<<sensor>>, <<button>>, <<button, sensor>>}
        Wire(stream) == IF Len(stream) = 1 THEN Some(EncodeMessage(stream[1]))
                        ELSE Some(EncodeMessage(stream[1])) \o Some(EncodeMessage(stream[2]))
    IN  UNION {{[fn |-> "receive_messages", messages |-> stream,
                 in_waiting |-> SubSeq(Wire(stream), 1, k),
                 arriving |-> SubSeq(Wire(stream), k + 1, Len(Wire(stream))),
                 reads |-> 0] : k \in 1..Len(Wire(stream))} : stream \in streams}

Calls ==
    {[fn |-> "process_qr_code", qr_code |-> url] : url \in ScannedUrls}
    \cup {[fn |-> "encode_message", message |-> message] : message \in Messages}
    \cup Arrivals
    \cup {[fn |-> "send", sent |-> 0, acks |-> 0]}

CallProcessQrCode ==
    /\ call.fn = "process_qr_code" /\ returned = {}
    /\ returned' = {ProcessScannedText(call.qr_code)}
    /\ UNCHANGED <<engineVars, call>>

CallEncodeMessage ==
    /\ call.fn = "encode_message" /\ returned = {}
    /\ returned' = EncodeMessage(call.message)
    /\ UNCHANGED <<engineVars, call>>

\* The frame that encode_message has returned is given to decode_frame.
CallDecodeFrame ==
    /\ call.fn = "encode_message" /\ returned # {}
    /\ call' = [fn |-> "decode_frame", frame |-> Some(returned), message |-> call.message]
    /\ returned' = DecodeFrame(Some(returned))
    /\ UNCHANGED engineVars

\* receive_messages is called on the bytes that are waiting; the bytes that arrive
\* afterwards are waiting at the next call. What the calls have returned is kept.
CallReceiveMessages ==
    /\ call.fn = "receive_messages" /\ call.reads < 2
    /\ returned' = {(IF returned = {} THEN <<>> ELSE Some(returned))
                      \o ReceiveMessages(call.in_waiting)}
    /\ call' = [call EXCEPT !.in_waiting = call.arriving, !.arriving = <<>>,
                            !.reads = @ + 1]
    /\ UNCHANGED engineVars

sendRest == <<ctlVars, rx, waiting_for_ack, last_ack_id, seqVars, qrVars, modeVars,
              syncVars, mcuVars, owed, handled, scan_in_wait, healthcheck_outcome,
              removal_timed_out, validatorVars, dbVars, absent_seen, last_seq4,
              returned>>

\* send_message with one command.
CallSendMessage ==
    /\ call.fn = "send" /\ call.sent < MaxSends
    /\ SendMessages(tx, <<DoorCmd(BLOCK)>>)
    /\ call' = [call EXCEPT !.sent = @ + 1]
    /\ UNCHANGED sendRest

\* send_ack for a frame of the microcontroller.
CallSendAck ==
    /\ call.fn = "send" /\ call.acks < MaxAcks
    /\ tx' = Append(tx, CreateAck(Msg(BUTTON_PUSHED, call.acks + 1, <<>>)))
    /\ call' = [call EXCEPT !.acks = @ + 1]
    /\ UNCHANGED <<message_id_counter, sendRest>>

InitCalls ==
    /\ InitEngine(FreshRow, Horizon, {})
    /\ db_last_sync_at = StartTime /\ initial_sync_done = TRUE
    /\ call \in Calls /\ returned = {}

NextCalls ==
    \/ CallProcessQrCode \/ CallEncodeMessage \/ CallDecodeFrame
    \/ CallReceiveMessages \/ CallSendMessage \/ CallSendAck

SpecCalls == InitCalls /\ [][NextCalls]_vars

----------------------------------------------------------------------------
(* Properties *)

\* The sequences on the call stack.
Running == {i \in DOMAIN stack : IsSeq(stack[i])}

\* A step starts one of the sequences fns.
Starts(fns) == Len(stack') > Len(stack) /\ stack'[Len(stack')].fn \in fns

Gated == device_inactive \/ device_secure_mode

\* C1: at most one sequence (SEQ1-SEQ5) executes at any instant: none is started
\* while another is mid-step, also not by a BUTTON_PUSHED or a
\* SENSOR_STATE_CHANGE(present) frame received inside the wait_for_ack of a
\* running sequence.
C1_OneSequenceAtATime == Cardinality(Running) <= 1

\* C2: while wait_for_ack is waiting, the only frames the Pi writes are ACK
\* frames: a BUTTON_PUSHED, SENSOR_STATE_CHANGE or ERROR_MSG frame received
\* during the wait causes no command frame before wait_for_ack returns.
C2_OnlyAcksWhileWaiting ==
    [][(\E i \in DOMAIN stack : stack[i].fn = "wait_for_ack")
         => \A j \in DOMAIN Written : Written[j].type = ACK]_vars

\* C3: every non-ACK frame the Pi reads, on every receive path, is answered by
\* exactly one ACK whose payload is the frame's type and id, and an ACK frame is
\* never answered: each ACK written answers a frame read and not yet
\* acknowledged, and when control is back in the main loop nothing read is
\* left unacknowledged.
C3_ExactlyOneAck ==
    [][/\ \A k \in Acked(Written) : k \in owed
       /\ stack'[Len(stack')].fn = "main" => owed' = {}]_vars

\* C4: the ACK for a frame is written before any effect of the frame's handler
\* (sensor-state update, sequence start, command send), in process_messages
\* and inside wait_for_ack: no frame is handled while its ACK is still owed.
C4_AckBeforeEffect == handled = {}

\* C5: within a sequence every command is ACKed before the next is sent: a
\* sequence never has two commands out without a successful ACK wait between
\* them, the lights-off step of SEQ4 and the red-light step of SEQ5 included.
C5_OneCommandOutstanding == \A i \in Running : stack[i].unacked <= 1

C7_ScanEndsQrWait ==
    \A i \in DOMAIN stack : stack[i].fn = "seq3" /\ stack[i].timed_out => ~scan_in_wait

\* A completion flag is set and older than the SEQ4 delay.
Older(completed, completion_time) ==
    completed /\ completion_time # NoTime /\ now - completion_time > SEQ4_DELAY

\* C8: a tick starts SEQ4 only if seq4_in_progress is false and seq2_completed or
\* seq3_completed is older than 180 s, strictly; a tick that finds this starts
\* it; SEQ4 is never started while a SEQ4 is running.
C8_Seq4Trigger ==
    [][/\ Starts({"seq4"}) =>
            /\ ~seq4_in_progress
            /\ \A i \in DOMAIN stack : stack[i].fn # "seq4"
            /\ Older(seq2_completed, seq2_completion_time)
                 \/ Older(seq3_completed, seq3_completion_time)
       /\ ( /\ Top.fn = "process_messages" /\ Top.pc = "loop" /\ Top.msgs = <<>>
            /\ ~seq4_in_progress
            /\ Older(seq2_completed, seq2_completion_time)
                 \/ Older(seq3_completed, seq3_completion_time) )
            => Starts({"seq4"})]_vars

\* SEQ4 has just been started by the tick 181 s after SEQ2 completed.
C8_StartedAt181 ==
    /\ Top.fn = "seq4" /\ Top.pc = "ii"
    /\ seq2_completed /\ now - seq2_completion_time = SEQ4_DELAY + 1

\* C9: if every healthcheck fails for more than two days while the main loop
\* runs, the device enters secure mode: is_in_safe_mode is true and the gate is
\* set once the watchdog has run after the two days, which it does within one
\* healthcheck interval.
C9_UnreachableEntersSecureMode ==
    (unreachable_since # NoTime
       /\ now - unreachable_since > SECURE_MODE_THRESHOLD + HEALTHCHECK_INTERVAL)
      => db_is_in_safe_mode /\ device_secure_mode

\* C10: when the watchdog runs with now - last_seen_at > 2 days, is_in_safe_mode
\* is persisted true, the secure-mode gate is set (so BUTTON_PUSHED is
\* suppressed), and if the stored flag was false the callback is invoked once
\* with true, also at the watchdog's first evaluation since start-up.
C10_WatchdogEntersSecureMode ==
    [][(last_healthcheck' # last_healthcheck
          /\ now - db_last_seen_at' > SECURE_MODE_THRESHOLD)
         => /\ db_is_in_safe_mode'
            /\ device_secure_mode'
            /\ ~db_is_in_safe_mode => secure_callbacks' = Append(secure_callbacks, TRUE)]_vars

\* The healthcheck of this step was answered with success / with an active flag.
Answered(outcomes) == healthcheck_outcome = NoOutcome /\ healthcheck_outcome' \in outcomes

\* C11: whenever the engine is in secure mode, entered through the watchdog or
\* restored from the store at start-up, the next successful healthcheck clears
\* is_in_safe_mode in the store, invokes the secure-mode callback with false,
\* and the secure-mode gate is open again, so that BUTTON_PUSHED is accepted.
C11_SuccessLeavesSecureMode ==
    [][(device_secure_mode /\ Answered({"active", "inactive", "no_status"}))
         => /\ ~db_is_in_safe_mode'
            /\ secure_callbacks' = Append(secure_callbacks, FALSE)
            /\ ~device_secure_mode']_vars

\* C12: after every successful healthcheck whose response carries an active
\* flag, the device_inactive gate is the negation of that flag, also after the
\* first healthcheck of a run that found the stored flag inactive.
C12_GateFollowsActiveFlag ==
    [][Answered({"active", "inactive"})
         => device_inactive' = (healthcheck_outcome' = "inactive")]_vars

\* The steps of each sequence that follow one of its ACK waits.
AfterAckWait ==
    [seq1 |-> {"iv", "vii", "ix", "xi"}, seq2 |-> {"iv"}, seq3 |-> {"vii"},
     seq4 |-> {"iii", "v", "ix"}, seq5 |-> {"ii_cover", "iii", "v"}]

\* The ACK wait of the sequence on top has just returned false.
AckWaitFailed == IsSeq(Top) /\ Top.pc \in AfterAckWait[Top.fn] /\ ~ret

ContainerRed == <<LIGHT_CONTAINER, RED_ON, STEADY>>

\* C13: whenever an ACK wait times out in a step of SEQ1-SEQ5, the sequence
\* aborts without sending a later step's command, and the engine commands the
\* container light red (error state).
C13_TimeoutAbortsToErrorState ==
    [][AckWaitFailed
         => /\ stack' = Below
            /\ \E j \in DOMAIN Written :
                 Written[j].type = LIGHT_MANAGEMENT /\ Written[j].payload = ContainerRed
            /\ \A j \in DOMAIN Written :
                 Written[j].type = LIGHT_MANAGEMENT /\ Written[j].payload = ContainerRed]_vars

\* The four commands of SEQ1 as they are on the wire.
Seq1Expected ==
    << <<DOOR_CONTROL, <<UNBLOCK>>>>, <<DOOR_CONTROL, <<BLOCK>>>>,
       <<LIGHT_MANAGEMENT, <<LIGHT_COVER, WHITE_ON, STEADY>>>>,
       <<LIGHT_MANAGEMENT, <<LIGHT_CONTAINER, WHITE_ON, STEADY>>>> >>

\* The commands among the frames written, as <<type, payload>>.
Commands(frames) == [j \in DOMAIN frames |-> <<frames[j].type, frames[j].payload>>]

\* C14: a SEQ1 started by BUTTON_PUSHED sends DOOR_CONTROL[unblock],
\* DOOR_CONTROL[block], LIGHT[cover,white,steady], LIGHT[container,white,steady]
\* in that order and nothing else, each after the ACK wait of the one before
\* succeeded; it gives up only after a failed wait; and seq1_lights_active
\* becomes true only in the step of SEQ1 that follows the fourth successful wait.
C14_Seq1Commands ==
    [][/\ Top.fn = "seq1" =>
            /\ Top.sent = SubSeq(Seq1Expected, 1, Len(Top.sent))
            /\ Len(stack') > Len(stack) =>
                 /\ Top.pc = "iii" \/ ret
                 /\ Commands(Written) = <<Seq1Expected[Len(Top.sent) + 1]>>
                 /\ stack'[Len(stack)].sent = Append(Top.sent, Seq1Expected[Len(Top.sent) + 1])
            /\ Len(stack') < Len(stack) =>
                 /\ Written = <<>>
                 /\ ret' = (ret /\ Top.sent = Seq1Expected)
       /\ (seq1_lights_active' /\ ~seq1_lights_active) =>
            Top.fn = "seq1" /\ Top.sent = Seq1Expected /\ ret]_vars

\* SEQ1 has just completed after four acknowledged commands.
C14_Seq1Completed ==
    /\ seq1_lights_active /\ seq1_activation_time = now /\ ret
    /\ Top.fn \in {"process_messages", "wait_for_ack"}

\* The item at sensor is stuck: the MCU has carried out a store movement with
\* the item detected, and still detects it when the removal wait has timed out.
Stuck(sensor) == removal_timed_out /\ mcu_sensor[sensor] /\ sensor \in mcu_removing

\* C15: if an item is stuck (its sensor never reports absent after the SEQ4
\* store commands), the engine runs SEQ5, which re-opens both actuators and
\* leaves the red light on the affected bay: when SEQ4 has ended after its
\* removal wait timed out on a stuck item, the engine goes on to SEQ5.
C15_StuckItemRunsSeq5 ==
    [][(/\ Top.fn = "process_messages" /\ Top.pc = "after_seq4"
        /\ \E sensor \in DOMAIN mcu_sensor : Stuck(sensor))
         => Starts({"seq5"})]_vars

\* Every item that was inserted has been reported absent, and the engine has
\* read the reports.
AllReportedAbsent == rx = <<>> /\ \A sensor \in DOMAIN mcu_sensor : ~mcu_sensor[sensor]

\* C16: every cycle terminates: once SEQ2 or SEQ3 has completed, the MCU
\* ACKs every command and reports absent for each item that was inserted, the
\* engine clears seq2_completed and seq3_completed, also in a cycle in which
\* only the cover or only the container was inserted: a SEQ4 that lost no ACK
\* and ends after all inserted items were reported absent has cleared them.
C16_CycleTerminates ==
    [][(/\ Top.fn = "seq4" /\ Len(stack') < Len(stack)
        /\ ~AckWaitFailed
        /\ AllReportedAbsent)
         => ~seq2_completed' /\ ~seq3_completed']_vars

----------------------------------------------------------------------------
(* QR validation *)

\* SEQ3 leaves its QR wait with a scan and validates it.
Validates == Top.fn = "seq3" /\ Top.pc = "wait" /\ Len(stack') > Len(stack)
                /\ container_qr_code # NoQr

\* The scan of the current SEQ3 is classified as a fraud attempt.
Fraud == container_qr_code # NoQr /\ ProcessQrCode(container_qr_code).is_fraud_attempt

\* C17: when the scan is classified as a fraud attempt, the validation calls neither
\* the backend nor the offline fallback and leaves the store alone, it appends one
\* audit entry of type ERROR whose details give the validation result fraud_attempt,
\* the only frame SEQ3 writes is the red container light, and once that command is
\* acknowledged SEQ3 sets seq3_completed and returns.
C17_FraudShortCircuits ==
    [][/\ (Validates /\ Fraud) =>
            /\ validator_calls' = <<>> /\ backend_answer' = NoAnswer
            /\ containers' = containers
            /\ Len(audit_logs') = Len(audit_logs) + 1
            /\ SubSeq(audit_logs', 1, Len(audit_logs)) = audit_logs
            /\ audit_logs'[Len(audit_logs')].type = "ERROR"
            /\ audit_logs'[Len(audit_logs')].details = "fraud_attempt"
            /\ Commands(Written) = <<LightCmd(LIGHT_CONTAINER, RED_ON)>>
       /\ (Top.fn = "seq3" /\ Top.pc = "vii" /\ Fraud /\ ret) =>
            /\ seq3_completed' /\ seq3_completion_time' = now
            /\ stack' = Below /\ ret']_vars

C17_FraudRejected ==
    /\ Fraud /\ seq3_completed /\ seq3_completion_time = now
    /\ validator_calls = <<>>
    /\ Len(audit_logs) = 1 /\ audit_logs[1].type = "ERROR"
    /\ Top.fn \in {"process_messages", "wait_for_ack"}

\* The validation consults the offline fallback.
FallsBack == "_handle_offline_fallback" \in Range(validator_calls')

\* SEQ3 shows the return as accepted.
Accepts == Commands(Written) = <<LightCmd(LIGHT_CONTAINER, GREEN_ON)>>

\* C18: when the backend answers the validate request with success = false, the
\* return is rejected and the offline fallback is not consulted; after a request
\* the fallback is consulted only if the request got no response.
C18_RejectionIsFinal ==
    [][Validates =>
         /\ backend_answer' = "unsuccessful" => ~Accepts /\ ~FallsBack
         /\ (backend_answer' # NoAnswer /\ FallsBack) => backend_answer' = "timeout"]_vars

\* The local records of the scanned code that are returnable and not overdue.
Returnable ==
    {c \in containers :
       /\ c.qr_code = Some(ParseScannedUrl(container_qr_code)).code
       /\ c.is_returnable
       /\ c.due_date = {} \/ Some(c.due_date).time >= now}

\* C19: when the validate request gets no response, the return is accepted if and
\* only if the store holds the container, its is_returnable is true and its due
\* date is null or not in the past.
C19_OfflineDecision ==
    [][(Validates /\ backend_answer' = "timeout") => (Accepts <=> Returnable # {})]_vars

\* The body of the response to the validate request of this validation.
ResponseBody == ClientValidateContainer(backend_answer')

\* The backend answers with success and a containerData that carries isReturnable.
ServerDecides ==
    /\ ResponseBody # {}
    /\ Some(ResponseBody).success
    /\ "containerData" \in DOMAIN Some(ResponseBody).data
    /\ "isReturnable" \in DOMAIN Some(ResponseBody).data.containerData

ServerIsReturnable == Some(ResponseBody).data.containerData.isReturnable

\* The local records of the scanned code.
Scanned(store) == {c \in store : c.qr_code = Some(ParseScannedUrl(container_qr_code)).code}

\* C20: when the backend answers the validate request with success and an
\* isReturnable, the return is accepted exactly if isReturnable is true, whatever the
\* local record says, the offline fallback is not consulted, and afterwards the
\* local record of the scanned code carries the response's isReturnable.
C20_ServerDecides ==
    [][(Validates /\ ServerDecides) =>
         /\ Accepts <=> ServerIsReturnable
         /\ ~FallsBack
         /\ Scanned(containers') # {}
         /\ \A c \in Scanned(containers') : c.is_returnable = ServerIsReturnable
         /\ {c.id : c \in containers'} = {c.id : c \in containers}]_vars

C20_AcceptedAgainstLocalRecord ==
    /\ backend_answer = "returnable" /\ seq3_completed
    /\ validator_calls = <<"validate_container", "_handle_server_response",
                           "_update_local_container">>
    /\ \E c \in Scanned(containers) :
         /\ c.is_returnable /\ c.updated_at >= StartTime
         /\ c.due_date # {} /\ Some(c.due_date).time < now
    /\ Len(audit_logs) = 1 /\ audit_logs[1].type = "RETURN_VALID"

----------------------------------------------------------------------------
(* Functions called on their own *)

Returned(fn) == call.fn = fn /\ returned # {}

\* The URLs of code whose hash has one character replaced by another that is one of
\* others.
Flipped(code, others) ==
    {ConstructUrl(code, [HmacHashOf(code) EXCEPT ![j] = c]) :
       j \in 1..CODE_LENGTH, c \in others}
    \ {ConstructUrl(code, HmacHashOf(code))}

\* C21 as stated: the URL of a code and its hash is accepted with the code as the
\* identifier, and with one character of the hash replaced by any different character
\* the result is fraud_attempt.
C21_AnyFlipIsFraud ==
    \A code \in Codes :
       (Returned("process_qr_code") /\ call.qr_code.code = code) =>
         /\ call.qr_code = ConstructUrl(code, HmacHashOf(code)) =>
               /\ Some(returned).validation = "valid"
               /\ Some(returned).container_id = {code}
         /\ call.qr_code \in Flipped(code, Replacements) =>
               Some(returned).validation = "fraud_attempt"

\* C21 (amended): the URL of a code and its hash is accepted with the code as the
\* identifier; with one character of the hash replaced by a character whose upper
\* case is not the original character the result is fraud_attempt, and with a
\* character whose upper case is the original character the URL is still accepted.
C21_FlipIsFraudUnlessCase ==
    \A code \in Codes :
       (Returned("process_qr_code") /\ call.qr_code.code = code) =>
         /\ call.qr_code = ConstructUrl(code, HmacHashOf(code)) =>
               /\ Some(returned).validation = "valid"
               /\ Some(returned).container_id = {code}
         /\ \A j \in 1..CODE_LENGTH, c \in Replacements :
               call.qr_code = ConstructUrl(code, [HmacHashOf(code) EXCEPT ![j] = c]) =>
                 IF Upper(c) = HmacHashOf(code)[j]
                 THEN /\ Some(returned).validation = "valid"
                      /\ Some(returned).container_id = {code}
                 ELSE /\ Some(returned).validation = "fraud_attempt"
                      /\ Some(returned).is_fraud_attempt

C21_FlippedHashRejected ==
    /\ Returned("process_qr_code")
    /\ Some(returned).validation = "fraud_attempt"
    /\ UrlPatternMatch(call.qr_code) # {}
    /\ \E code \in Codes : call.qr_code \in Flipped(code, {"A", "7", "B", "0"})

----------------------------------------------------------------------------
(* Store and sync *)

\* The operation fn has just been carried out on the store.
Did(fn) == now' = now + 1 /\ call'.fn = fn

\* C22: a regular sync that succeeds deletes exactly the audit logs that were in its
\* request (a log dropped from the request for its null container reference stays),
\* and a sync that fails deletes no log and leaves last_sync_at as it was.
C22_DeletesWhatWasSent ==
    [][Did("_do_sync") =>
         IF returned' = {"complete"}
         THEN audit_logs' = DeleteLogs(audit_logs, call'.logs)
         ELSE audit_logs' = audit_logs /\ db_last_sync_at' = db_last_sync_at]_vars

\* The container a response entry stands for: its id, QR, returnable flag and due
\* time (an instant in UTC, or none).
Entry(container_data) ==
    [id |-> container_data.id, qr_code |-> container_data.qrCode,
     is_returnable |-> container_data.isReturnable,
     due_date |-> {[time |-> d.time, tzinfo |-> TRUE] : d \in container_data.dueTime}]
Stored(c) ==
    [id |-> c.id, qr_code |-> c.qr_code, is_returnable |-> c.is_returnable,
     due_date |-> c.due_date]

\* C23: after a successful sync, initial or regular, the local containers are exactly
\* the containers of the server response, each with its id, QR, returnable flag and
\* due time; no container from before remains unless the response names it.
C23_SyncReplacesContainers ==
    [][((Did("_do_sync") \/ Did("_do_initial_sync")) /\ returned' = {"complete"}) =>
         {Stored(c) : c \in containers'}
           = {Entry(call'.response.data[j]) : j \in DOMAIN call'.response.data}]_vars

C23_TwoContainersReplaced ==
    /\ call.fn = "_do_sync" /\ returned = {"complete"}
    /\ call.containers # {}
    /\ Len(call.response.data) = 2
    /\ Cardinality(containers) = 2
    /\ \A c \in containers : c.updated_at = now

\* C24: a healthcheck that fails, by a transport error or by a response with
\* success = false, increments update_failures by exactly one, and a healthcheck that
\* succeeds leaves it as it was.
C24_FailureCounted ==
    [][Answered(Outcomes) =>
         db_update_failures' =
           IF healthcheck_outcome' \in {"unsuccessful", "exception"}
           THEN db_update_failures + 1 ELSE db_update_failures]_vars

\* The ids of the containers in the store.
Ids == {c.id : c \in containers}

\* The entry that _log_to_database has just stored last.
LastLog == audit_logs'[Len(audit_logs')]

\* C28: every stored audit log with a container reference refers to a container in
\* the store, whatever logs are written, scans validated and syncs run; and writing
\* a log whose reference names no container stores the entry exactly once, with the
\* reference cleared and the description annotated, and does not raise.
C28_ReferencesSatisfied ==
    /\ [](\A j \in DOMAIN audit_logs :
            \A id \in audit_logs[j].container_id : id \in Ids)
    /\ [][(Did("_log_to_database") /\ ~(call'.log.container_id \subseteq Ids)) =>
            /\ Len(audit_logs') = Len(audit_logs) + 1
            /\ SubSeq(audit_logs', 1, Len(audit_logs)) = audit_logs
            /\ LastLog.type = call'.log.type
            /\ LastLog.container_id = {}
            /\ LastLog.description[1] = call'.log.description
            /\ NotFoundInDb \in Range(LastLog.description)
            /\ returned' = {"None"}]_vars

C28_StoredWithoutReference ==
    /\ call.fn = "_log_to_database" /\ call.log.container_id = {"c-2"}
    /\ Ids = {"c-1"}
    /\ Len(audit_logs) = 2
    /\ audit_logs[1].container_id = {"c-1"}
    /\ audit_logs[2].container_id = {}
    /\ NotFoundInDb \in Range(audit_logs[2].description)

----------------------------------------------------------------------------
(* The link's functions *)

\* The frame that was written last.
LastWritten == tx'[Len(tx')]

\* C25: the ids that successive sends assign cycle 1, 2, ..., 99, 0, 1, ... and are
\* within 0..99; sending an ACK does not advance the counter, and every ACK frame
\* that is sent carries id 0.
C25_IdsCycle ==
    [][(call.fn = "send" /\ tx' # tx) =>
         IF LastWritten.type = ACK
         THEN LastWritten.id = 0 /\ message_id_counter' = message_id_counter
         ELSE /\ LastWritten.id = IF message_id_counter = 99 THEN 0
                                  ELSE message_id_counter + 1
              /\ LastWritten.id \in 0..99
              /\ message_id_counter' = LastWritten.id]_vars

C25_Wrapped ==
    /\ call.fn = "send" /\ call.sent = 101 /\ call.acks > 0
    /\ message_id_counter = 1
    /\ tx[Len(tx)].id = 1 /\ tx[Len(tx) - 1].id = 0 /\ tx[Len(tx) - 1].type # ACK

\* C26: for a message with a defined type, an id in 0..99 and a payload of at most
\* 255 bytes, decoding the encoded frame gives the message back, the frame is 5 bytes
\* longer than the payload, and its first and last bytes are 0x7B and 0x7D.
C26_RoundTrip ==
    Returned("decode_frame") =>
      /\ returned = {call.message}
      /\ Len(call.frame) = 5 + Len(call.message.payload)
      /\ call.frame[1] = 123
      /\ call.frame[Len(call.frame)] = 125

C26_LongestPayloadDecoded ==
    /\ Returned("decode_frame")
    /\ Len(call.frame) = 260
    /\ call.message.payload[255] = 125
    /\ Some(returned).id = 99

\* C27: when the bytes of a frame arrive split across two calls of receive, the
\* second call delivers the complete frame; no frame is lost at a read boundary.
C27_NoFrameLostAtBoundary ==
    (call.fn = "receive_messages" /\ call.reads = 2) =>
      Some(returned) = call.messages

----------------------------------------------------------------------------
(* QR wait and removal wait *)

\* C29: waiting_for_qr is true only while SEQ3 is inside its QR wait; when SEQ3 has
\* ended, also by the 30 s timeout, the flag is false, so that a later scan is not
\* taken by the engine.
C29_FlagOnlyInQrWait ==
    waiting_for_qr => \E i \in DOMAIN stack : stack[i].fn = "seq3" /\ stack[i].pc = "wait"

\* C30: when the engine has read an absent report of both sensors since SEQ4 sent
\* its second store command, within the 120 s window, the removal wait of SEQ4
\* returns success, whether a report was read while SEQ4 was waiting for the ACK of
\* the store command or in the removal wait itself.
C30_RemovalsCounted ==
    [][(/\ Top.fn = "wait_for_both_removals" /\ Len(stack') < Len(stack)
        /\ absent_seen = {SENSOR_COVER, SENSOR_CONTAINER})
         => ret']_vars

----------------------------------------------------------------------------
(* ACK correlation *)

\* C31: wait_for_ack returns true only if, during that wait, an ACK frame was
\* read whose payload [type, id] identifies the command most recently sent
\* (one of those its caller sent right before the wait, or the last one sent
\* when the ACK was read); the ACK of an earlier command never satisfies a
\* later wait.
C31_AckIdentifiesCommand ==
    [][(Top.fn = "wait_for_ack" /\ Len(stack') < Len(stack) /\ ret') => Top.matched]_vars

----------------------------------------------------------------------------
(* Completion flags and the SEQ4 guard *)

completionVars == <<seq2_completed, seq2_completion_time, seq3_completed, seq3_completion_time>>

\* A step clears a completion flag or its timestamp.
Clears ==
    \/ seq2_completed /\ ~seq2_completed'
    \/ seq3_completed /\ ~seq3_completed'
    \/ seq2_completion_time # NoTime /\ seq2_completion_time' = NoTime
    \/ seq3_completion_time # NoTime /\ seq3_completion_time' = NoTime

\* The sequence on top of the stack returns value.
SeqReturns(fns, value) ==
    Top.fn \in fns /\ Len(stack') < Len(stack) /\ ret' = value

\* _check_automatic_sequences is about to run.
AtPeriodicCheck == Top.fn = "process_messages" /\ Top.pc = "loop" /\ Top.msgs = <<>>

\* The SEQ4 that the periodic check before this one started has returned False.
AfterFailedSeq4 == \E w \in last_seq4 : w.failed

\* A SEQ2 or SEQ3 has completed since that SEQ4 started.
CompletedSince == \E w \in last_seq4 : w.found # completionVars

\* C32 as claimed: a sequence that aborts leaves seq2_completed, seq3_completed
\* and their timestamps unchanged; they are cleared only by a SEQ4 that
\* completes all its steps; so after a failed SEQ4 the trigger condition holds
\* at the periodic check of the next tick.
C32_TriggerHoldsAfterFailure ==
    /\ [][SeqReturns(SeqFns, FALSE) => UNCHANGED completionVars]_vars
    /\ [][Clears => SeqReturns({"seq4"}, TRUE)]_vars
    /\ [](AtPeriodicCheck /\ AfterFailedSeq4 => CheckSequence4Trigger(now))

\* C32 amended: a sequence that aborts leaves seq2_completed, seq3_completed
\* and their timestamps unchanged; they are cleared only by a SEQ4 that
\* completes all its steps; so after a failed SEQ4 the trigger condition holds
\* at the periodic check of the next tick unless a SEQ2 or SEQ3 has completed
\* since that SEQ4 started and renewed its timestamp.
C32_AbortKeepsFlags ==
    /\ [][SeqReturns(SeqFns, FALSE) => UNCHANGED completionVars]_vars
    /\ [][Clears => SeqReturns({"seq4"}, TRUE)]_vars
    /\ [](AtPeriodicCheck /\ AfterFailedSeq4
            => CheckSequence4Trigger(now) \/ CompletedSince)

\* The tick after a SEQ4 that failed: the flags are as that SEQ4 found them and
\* the check is about to start SEQ4 again.
C32_RetriedAfterFailure ==
    AtPeriodicCheck /\ AfterFailedSeq4 /\ ~CompletedSince /\ CheckSequence4Trigger(now)

\* _execute_sequence_4 has been entered and has not returned.
Seq4Executes == \E i \in DOMAIN stack : stack[i].fn = "seq4" /\ stack[i].pc # "ii"

\* C33: seq4_in_progress is true exactly while SEQ4 executes: it is set on
\* entry and is false after every exit of SEQ4, so a failed SEQ4 never blocks
\* a later one.
C33_GuardWhileExecuting == seq4_in_progress <=> Seq4Executes

\* SEQ4 has just returned False to the periodic check.
C33_FailedSeq4Left ==
    /\ Top.fn = "process_messages" /\ Top.pc = "after_seq4"
    /\ AfterFailedSeq4 /\ ~ret

----------------------------------------------------------------------------
(* SEQ1 light timeout *)

LightsOffFrames(frames) ==
    /\ Len(frames) = 2
    /\ frames[1].type = LIGHT_MANAGEMENT /\ frames[1].payload = <<LIGHT_CONTAINER, DISABLE_ALL, STEADY>>
    /\ frames[2].type = LIGHT_MANAGEMENT /\ frames[2].payload = <<LIGHT_COVER, DISABLE_ALL, STEADY>>

\* C34: when seq1_lights_active is true and more than 60 s have passed since
\* SEQ1's activation time, the periodic check of the next tick sends
\* LIGHT[container, off] then LIGHT[cover, off], waits for no ACK and clears the
\* flag; at an age of 60 s or less it sends nothing and the flag stays set.
C34_LightTimeout ==
    [][(AtPeriodicCheck /\ seq1_lights_active) =>
         IF now - seq1_activation_time > SEQ1_LIGHT_TIMEOUT
         THEN /\ LightsOffFrames(Written)
              /\ ~seq1_lights_active'
              /\ stack'[Len(stack')].fn # "wait_for_ack"
              /\ UNCHANGED waiting_for_ack
         ELSE Written = <<>> /\ seq1_lights_active']_vars

\* The periodic check has just turned the lights off: both commands are written
\* and the main loop goes on.
C34_LightsTimedOut ==
    /\ Top.fn = "main" /\ Top.pc = "api"
    /\ ~seq1_lights_active
    /\ Len(tx) >= 2 /\ LightsOffFrames(SubSeq(tx, Len(tx) - 1, Len(tx)))

----------------------------------------------------------------------------
(* White lights *)

\* C35: white lights turned on by SEQ1 are always eventually turned off or
\* replaced: when SEQ2 or SEQ3, running on its own, aborts while a white light
\* is on, the 60 s light timeout is still armed or a SEQ4 is still due, one of
\* which turns the lights off.
C35_WhiteLightsGoOut ==
    [][(SeqReturns({"seq2", "seq3"}, FALSE) /\ Cardinality(Running) = 1 /\ mcu_white # {})
         => (seq1_lights_active \/ seq2_completed \/ seq3_completed)']_vars

----------------------------------------------------------------------------
(* Gates and the timer-driven sequences *)

\* C36: while device_inactive or secure_mode is set all operations are
\* suspended: no step starts SEQ4 or SEQ5 and no ACTUATOR_MOVEMENT command is
\* written, also when seq2_completed or seq3_completed is older than 180 s.
C36_GatesSuspendTimerSequences ==
    [][Gated => /\ ~Starts({"seq4", "seq5"})
                /\ \A j \in DOMAIN Written : Written[j].type # ACTUATOR_MOVEMENT]_vars

----------------------------------------------------------------------------
(* Lifting the restrictions *)

\* C37: after any sequence of device-active and secure-mode callbacks the
\* restrictions are lifted only when both gates are clear: a call of the
\* callbacks that re-enables QR scanning or sends the lights-off and
\* door-unblock commands leaves neither device_inactive nor secure_mode set.
C37_LiftedOnlyWhenBothClear ==
    [][(/\ Top.fn = "main" /\ Top.pc = "api"
        /\ \/ ~scan_enabled /\ scan_enabled'
           \/ \E j \in DOMAIN Written : /\ Written[j].type = DOOR_CONTROL
                                        /\ Written[j].payload = <<UNBLOCK>>)
         => ~Gated']_vars

----------------------------------------------------------------------------
(* The QR hand-off slot between the input thread and the main loop          *)
(* (scanner.py 131-207, 343-350), statement by statement.  call holds the   *)
(* two threads' positions, the temporary file and the fate of every scan.   *)

MaxScans == 3

\* The strings the reader completes, in the order of the scans.
ScanCodes == <<"QR1", "QR2", "QR3", "QR4">>

slotRest == <<ctlVars, linkVars, seqVars, waiting_for_qr, qr_timeout_start, container_qr_code,
              scan_enabled, modeVars, syncVars, mcuVars, owed, handled, scan_in_wait,
              healthcheck_outcome, removal_timed_out, validatorVars, dbVars, absent_seen,
              last_seq4>>

SlotIdle == [fn |-> "qr_slot", hid |-> "idle", scans |-> 0, temp_path |-> NoQr,
             engine |-> "idle", qr_code |-> NoQr,
             fate |-> [k \in 1..MaxScans |-> "none"]]

\* _write_qr_to_file: open(temp_path, 'w') creates or truncates the temporary file.
WriteQrOpen ==
    /\ call.hid = "idle" /\ scan_enabled
    /\ call.scans < MaxScans
    /\ call' = [call EXCEPT !.hid = "write", !.scans = @ + 1, !.temp_path = ""]
    /\ UNCHANGED <<qr_file, returned, slotRest>>

\* f.write(qr_code) and the end of the with block.
WriteQrWrite ==
    /\ call.hid = "write"
    /\ call' = [call EXCEPT !.hid = "replace", !.temp_path = ScanCodes[call.scans]]
    /\ UNCHANGED <<qr_file, returned, slotRest>>

\* temp_path.replace(self.qr_file_path): the rename puts the new file in the
\* slot's place, whatever was there.
WriteQrReplace ==
    /\ call.hid = "replace"
    /\ qr_file' = call.temp_path
    /\ call' = [call EXCEPT !.hid = "idle", !.temp_path = NoQr,
                            !.fate = [k \in 1..MaxScans |->
                                        IF k = call.scans THEN "slot"
                                        ELSE IF @[k] = "slot" THEN "overwritten"
                                        ELSE @[k]]]
    /\ UNCHANGED <<returned, slotRest>>

\* _read_qr_from_file: the exists() test; without a file it returns None.
ReadQrExists ==
    /\ call.engine = "idle"
    /\ IF qr_file = NoQr
       THEN /\ returned' = {NoQr}
            /\ UNCHANGED call
       ELSE /\ call' = [call EXCEPT !.engine = "read"]
            /\ UNCHANGED returned
    /\ UNCHANGED <<qr_file, slotRest>>

\* open(self.qr_file_path, 'r') and f.read().strip().
ReadQrRead ==
    /\ call.engine = "read"
    /\ call' = [call EXCEPT !.engine = "unlink", !.qr_code = qr_file]
    /\ UNCHANGED <<qr_file, returned, slotRest>>

\* self.qr_file_path.unlink(): removes the file that is in the slot now.
ReadQrUnlink ==
    /\ call.engine = "unlink"
    /\ qr_file' = NoQr
    /\ call' = [call EXCEPT !.engine = "return",
                            !.fate = [k \in 1..MaxScans |->
                                        IF qr_file = ScanCodes[k] /\ qr_file # call.qr_code
                                        THEN "discarded" ELSE @[k]]]
    /\ UNCHANGED <<returned, slotRest>>

\* return qr_code if qr_code else None, handed to _process_scan by check_for_scans.
ReadQrReturn ==
    /\ call.engine = "return"
    /\ returned' = {IF call.qr_code # "" THEN call.qr_code ELSE NoQr}
    /\ call' = [call EXCEPT !.engine = "idle", !.qr_code = NoQr,
                            !.fate = [k \in 1..MaxScans |->
                                        IF call.qr_code = ScanCodes[k] THEN "delivered"
                                        ELSE @[k]]]
    /\ UNCHANGED <<qr_file, slotRest>>

InitSlot ==
    /\ InitEngine(FreshRow, Horizon, {})
    /\ db_last_sync_at = StartTime /\ initial_sync_done = TRUE
    /\ call = SlotIdle /\ returned = {}

NextSlot ==
    \/ WriteQrOpen \/ WriteQrWrite \/ WriteQrReplace
    \/ ReadQrExists \/ ReadQrRead \/ ReadQrUnlink \/ ReadQrReturn

SpecSlot == InitSlot /\ [][NextSlot]_vars

\* C38: with the input thread writing the slot and the engine reading and then
\* clearing it concurrently, the clear never discards a scan written after the
\* engine's read: every completed scan is delivered or overwritten by a newer
\* one, or is still in the slot or in the engine's hand; and what the engine is
\* handed is a whole scanned string or nothing.
C38_NoScanDiscarded ==
    /\ \A k \in 1..MaxScans : call.fate[k] \in {"none", "slot", "overwritten", "delivered"}
    /\ returned \subseteq {NoQr} \cup {ScanCodes[k] : k \in 1..MaxScans}

----------------------------------------------------------------------------
(* What a regular sync sends *)

\* C39: a container that was not modified locally between two successful
\* regular syncs is not in the containers payload of the second: a regular sync
\* sends no container that the last successful regular sync has stored and
\* nothing has modified since.
C39_UnmodifiedNotResent ==
    [][(Did("_do_sync") /\ returned' = {"complete"})
         => \A c \in call'.containers : c.id \notin unmodified]_vars

----------------------------------------------------------------------------
(* Initial sync *)

====
